---- MODULE Spec2Model ----
(***************************************************************************)
(* Truck scheduler: a TLA+ model of the two application variants of the    *)
(* repository.                                                             *)
(*                                                                         *)
(*   src/unnamed/part_000  the "manual" application: jobs carry four       *)
(*       duration fields, placements are written by saveJobToSchedule,     *)
(*       QuickPlace and the greedy autoSchedule, all through               *)
(*       placeOnSchedule (an upsert on (job, day)).                        *)
(*   src/unnamed/part_002  the "auto" application: the pure                *)
(*       computeAutoSchedule and the reactive autoSchedule effect.         *)
(*                                                                         *)
(* Clock strings "HH:MM" are pairs <<h, m>>; the empty tuple is an absent  *)
(* or unparseable clock string.  Truck and job identifiers are positive    *)
(* integers (uid() and Date.now() only have to be fresh); 0 is the null    *)
(* truck reference.                                                        *)
(***************************************************************************)
EXTENDS Integers, Sequences, FiniteSets, TLC

VARIABLES
    trucks,      \* Truck ids in fleet order
    jobs,        \* Job records in list order (the record shape is the variant's)
    scheduled,   \* ScheduledRow records in array order
    settings,    \* part_000: the Settings record; part_002: the startTime,
                 \* endTime, gap and activeDay states, as one record
    uidNext,     \* next fresh identifier (uid() of part_000, Date.now() of part_002)
    edits,       \* how many updateJob and setSettings calls were made so far
    places,      \* how many placement handlers (save, quick place, auto) ran so far
    lastOp,      \* history: the last handler that ran and the rows it wrote
    fleetDesired, \* part_002: the number typed into the fleet count input
    sess,        \* shared mode: each session's local state
    store,       \* shared mode: the data of the app_state row "shared"
    inbox,       \* shared mode: each session's undelivered change notifications
    timer,       \* shared mode: whether a session's save timeout is pending
    arg,         \* the input of a function applied on its own
    result,      \* what the function returned for arg
    alerted,     \* history: whether the last handler called alert()
    sharedOn,    \* shared mode: each session's sharing switch
    sharedInfo   \* shared mode: each session's connection status

vars == <<trucks, jobs, scheduled, settings, uidNext, edits, places, lastOp,
          fleetDesired, sess, store, inbox, timer, arg, result, alerted,
          sharedOn, sharedInfo>>

\* what a single application without shared mode never touches
aside == <<sess, store, inbox, timer, arg, result, sharedOn, sharedInfo>>

\* the value of a variable the specification at hand does not use
Unused == <<>>

----------------------------------------------------------------------------
(* Bounds of the model *)

\* the last identifier uid() hands out in one behaviour (1 and 2 are the
\* trucks of the initial fleet, the others go to jobs)
MaxUid == 4
\* updateJob and setSettings calls in one behaviour
MaxEdits == 1
\* saveJobToSchedule, QuickPlace and autoSchedule calls in one behaviour
MaxPlaces == 3

\* values the numeric inputs are driven with
GapValues == {-15, 0, 30}
BufferValues == {0}
MinuteValues == {60}
StartValues == {<<8, 0>>}
EndValues == {<<9, 0>>}
EarliestValues == {<<8, 30>>}

\* the days the model switches between (a prefix of DAYS)
DAYS == <<"Mon", "Tue">>

NoClock == <<>>
NoTruck == 0
\* the null a probe returns when it finds no slot
NoSlot == -1000000

----------------------------------------------------------------------------
(* Helpers of part_000 *)

Max2(a, b) == IF a >= b THEN a ELSE b
Min2(a, b) == IF a <= b THEN a ELSE b

clamp(n, a, b) == Max2(a, Min2(b, n))

\* toMin: a string that does not match ^(\d{1,2}):(\d{2})$ gives 0
toMin(hhmm) ==
    IF hhmm = NoClock THEN 0
    ELSE clamp(hhmm[1] * 60 + hhmm[2], 0, 24 * 60)

Range(s) == {s[i] : i \in DOMAIN s}

\* jobById[id]: the job record, looked up by id
hasJob(js, id) == \E i \in DOMAIN js : js[i].id = id
jobById(js, id) == js[CHOOSE i \in DOMAIN js : js[i].id = id]

DEFAULT_SETTINGS ==
    [startTime |-> <<7, 0>>, endTime |-> <<18, 0>>, gap |-> 15,
     bufferBetweenJobs |-> 10, activeDay |-> "Mon"]

startMin == toMin(settings.startTime)
endMin == toMin(settings.endTime)

\* jobDuration: both branches of the source compute the same sum
jobDuration(j) ==
    IF j.type = "Delivery"
    THEN j.loadMin + j.travelMin + j.onsiteMin
         + (IF j.returnTravelMin = 0 THEN 0 ELSE j.returnTravelMin)
    ELSE j.loadMin + j.travelMin + j.onsiteMin
         + (IF j.returnTravelMin = 0 THEN 0 ELSE j.returnTravelMin)

\* snap with Math.floor in the place of Math.ceil
snap_down(m, gap) ==
    IF gap > 0 THEN (m \div gap) * gap
    ELSE (-((-m) \div (-gap))) * (-gap)

\* Math.ceil(m / gap) * gap for gap # 0 (gap = 0 gives NaN, handled by callers)
snap(m, gap) ==
    IF gap > 0 THEN (-((-m) \div gap)) * gap
    ELSE (m \div (-gap)) * (-gap)

\* placeOnSchedule as a plain append, keeping the prior row of (jobId, day)
placeOnSchedule_append(s, jobId, truckId, day, start, end) ==
    Append(s, [jobId |-> jobId, truckId |-> truckId, day |-> day,
               startMin |-> start, endMin |-> end])

\* placeOnSchedule: upsert on (jobId, day); the row id is a fresh uid() that
\* nothing reads and is left out
placeOnSchedule(s, jobId, truckId, day, start, end) ==
    SelectSeq(s, LAMBDA r : ~(r.jobId = jobId /\ r.day = day))
    \o <<[jobId |-> jobId, truckId |-> truckId, day |-> day,
          startMin |-> start, endMin |-> end]>>

\* the orphan guard effect that runs whenever jobs changed
orphanGuard(s, js) == SelectSeq(s, LAMBDA x : hasJob(js, x.jobId))

\* stable insertion sort of rows by startMin (Array.prototype.sort is stable)
RECURSIVE insertByStart(_, _)
insertByStart(sorted, r) ==
    IF sorted = <<>> THEN <<r>>
    ELSE IF sorted[Len(sorted)].startMin <= r.startMin THEN Append(sorted, r)
    ELSE Append(insertByStart(SubSeq(sorted, 1, Len(sorted) - 1), r),
                sorted[Len(sorted)])

RECURSIVE sortByStart(_)
sortByStart(s) ==
    IF s = <<>> THEN <<>>
    ELSE insertByStart(sortByStart(SubSeq(s, 1, Len(s) - 1)), s[Len(s)])

\* the rows of the active day, whatever truck they are on
existingOn_anyTruck(truckId) ==
    sortByStart(SelectSeq(scheduled, LAMBDA s :
        s.day = settings.activeDay /\ hasJob(jobs, s.jobId)))

\* the rows a probe on truckId looks at
existingOn(truckId) ==
    sortByStart(SelectSeq(scheduled, LAMBDA s :
        s.day = settings.activeDay /\ s.truckId = truckId /\ hasJob(jobs, s.jobId)))

\* fitsAt with the intervals taken as closed
fitsAt_closed(existing, dur, dayEnd, st) ==
    LET en == st + dur
    IN  /\ \A i \in DOMAIN existing :
              ~(en >= existing[i].startMin /\ st <= existing[i].endMin)
        /\ en <= dayEnd

\* fitsAt with the conflict test of a candidate that starts inside a row lost
fitsAt_startOnly(existing, dur, dayEnd, st) ==
    LET en == st + dur
    IN  /\ \A i \in DOMAIN existing :
              ~(en > existing[i].startMin /\ st < existing[i].startMin)
        /\ en <= dayEnd

fitsAt(existing, dur, dayEnd, st) ==
    LET en == st + dur
    IN  /\ \A i \in DOMAIN existing :
              ~(en > existing[i].startMin /\ st < existing[i].endMin)
        /\ en <= dayEnd

\* the while loop of earliestSlotOnTruck, entered with cursor cur
RECURSIVE slotLoop(_, _, _, _, _)
slotLoop(existing, dur, dayEnd, gap, cur) ==
    IF ~(cur + dur <= dayEnd) THEN NoSlot
    ELSE LET c == snap(cur, gap)
         IN  IF fitsAt(existing, dur, dayEnd, c) THEN c
             ELSE slotLoop(existing, dur, dayEnd, gap, c + gap)

\* earliestSlotOnTruck.  With gap = 0, snap gives NaN: fitsAt(NaN) is false,
\* cur becomes NaN and the loop condition fails, so the result is null.
earliestSlotOnTruck(truckId, dur) ==
    IF settings.gap = 0 THEN NoSlot
    ELSE slotLoop(existingOn(truckId), dur, toMin(settings.endTime),
                  settings.gap, toMin(settings.startTime))

\* the loop of saveJobToSchedule with the last of equal starts winning
RECURSIVE bestOver_lastWins(_, _, _)
bestOver_lastWins(cands, dur, best) ==
    IF cands = <<>> THEN best
    ELSE LET tid == Head(cands)
             st == earliestSlotOnTruck(tid, dur)
         IN  bestOver_lastWins(Tail(cands), dur,
                 IF st # NoSlot /\ (best.truckId = NoTruck \/ st <= best.start)
                 THEN [truckId |-> tid, start |-> st]
                 ELSE best)

\* the loop of saveJobToSchedule over the candidate trucks: the first
\* strictly smaller start wins
RECURSIVE bestOver(_, _, _)
bestOver(cands, dur, best) ==
    IF cands = <<>> THEN best
    ELSE LET tid == Head(cands)
             st == earliestSlotOnTruck(tid, dur)
         IN  bestOver(Tail(cands), dur,
                 IF st # NoSlot /\ (best.truckId = NoTruck \/ st < best.start)
                 THEN [truckId |-> tid, start |-> st]
                 ELSE best)

candidateTrucks(j) == IF j.truckId # NoTruck THEN <<j.truckId>> ELSE trucks

----------------------------------------------------------------------------
(* autoSchedule of part_000 *)

\* place with the buffer counted into the row's end
place_paddedEnd(j, truckId, st) ==
    LET dur == jobDuration(j)
        s == snap(st.next[truckId], settings.gap)
        en == s + dur + settings.bufferBetweenJobs
    IN  IF settings.gap # 0 /\ en <= endMin
        THEN [ok |-> TRUE,
              next |-> [st.next EXCEPT ![truckId] = en],
              sched |-> placeOnSchedule(st.sched, j.id, truckId,
                                        settings.activeDay, s, en),
              written |-> Append(st.written,
                  [jobId |-> j.id, truckId |-> truckId,
                   day |-> settings.activeDay, startMin |-> s, endMin |-> en])]
        ELSE [ok |-> FALSE, next |-> st.next, sched |-> st.sched,
              written |-> st.written]

\* place(j, truckId) on the running state st = [next, sched, written]
place(j, truckId, st) ==
    LET dur == jobDuration(j)
        s == snap(st.next[truckId], settings.gap)
        en == s + dur
    IN  IF settings.gap # 0 /\ en <= endMin
        THEN [ok |-> TRUE,
              next |-> [st.next EXCEPT ![truckId] = en + settings.bufferBetweenJobs],
              sched |-> placeOnSchedule(st.sched, j.id, truckId,
                                        settings.activeDay, s, en),
              written |-> Append(st.written,
                  [jobId |-> j.id, truckId |-> truckId,
                   day |-> settings.activeDay, startMin |-> s, endMin |-> en])]
        ELSE [ok |-> FALSE, next |-> st.next, sched |-> st.sched,
              written |-> st.written]

\* for (const t of trucks) { if (place(j, t.id)) break; }
RECURSIVE placeFirst(_, _, _)
placeFirst(j, cands, st) ==
    IF cands = <<>> THEN st
    ELSE LET r == place(j, Head(cands), st)
         IN  IF r.ok THEN r ELSE placeFirst(j, Tail(cands), st)

\* for (const j of byTruck[t]) place(j, t)
RECURSIVE placePinned(_, _, _)
placePinned(js, t, st) ==
    IF js = <<>> THEN st
    ELSE placePinned(Tail(js), t, place(Head(js), t, st))

RECURSIVE placeByTruck(_, _)
placeByTruck(ts, st) ==
    IF ts = <<>> THEN st
    ELSE placeByTruck(Tail(ts),
            placePinned(SelectSeq(jobs, LAMBDA j : j.truckId = Head(ts)),
                        Head(ts), st))

RECURSIVE placeUnslotted(_, _)
placeUnslotted(js, st) ==
    IF js = <<>> THEN st
    ELSE placeUnslotted(Tail(js), placeFirst(Head(js), trucks, st))

\* a job goes to byTruck only when its truck is in the fleet
unslotted ==
    SelectSeq(jobs, LAMBDA j : ~(j.truckId # NoTruck /\ j.truckId \in Range(trucks)))

autoScheduleRun ==
    placeUnslotted(unslotted,
        placeByTruck(trucks,
            [ok |-> TRUE, next |-> [t \in Range(trucks) |-> startMin],
             sched |-> scheduled, written |-> <<>>]))

----------------------------------------------------------------------------
(* Handlers of part_000 *)

Op(name, jobId, written) == [op |-> name, jobId |-> jobId, written |-> written]

InitA ==
    /\ trucks = <<1, 2>>
    /\ jobs = <<>>
    /\ scheduled = <<>>
    /\ settings = DEFAULT_SETTINGS
    /\ uidNext = 3
    /\ edits = 0
    /\ places = 0
    /\ lastOp = Op("other", 0, <<>>)
    /\ fleetDesired = 0
    /\ sess = Unused /\ store = Unused /\ inbox = Unused /\ timer = Unused
    /\ arg = Unused /\ result = Unused
    /\ alerted = FALSE /\ sharedOn = Unused /\ sharedInfo = Unused

removeTruck ==
    \E id \in Range(trucks) :
        /\ trucks' = SelectSeq(trucks, LAMBDA x : x # id)
        /\ scheduled' = SelectSeq(scheduled, LAMBDA r : r.truckId # id)
        /\ lastOp' = Op("other", 0, <<>>)
        /\ alerted' = FALSE
        /\ UNCHANGED <<aside, fleetDesired, jobs, settings, uidNext, edits, places>>

addJob ==
    \E type \in {"Delivery", "Collection"} :
        /\ uidNext <= MaxUid
        /\ jobs' = Append(jobs,
              [id |-> uidNext, type |-> type, loadMin |-> 30, travelMin |-> 30,
               onsiteMin |-> 30,
               returnTravelMin |-> IF type = "Collection" THEN 30 ELSE 0,
               earliest |-> NoClock, truckId |-> NoTruck])
        /\ uidNext' = uidNext + 1
        /\ scheduled' = orphanGuard(scheduled, jobs')
        /\ lastOp' = Op("other", 0, <<>>)
        /\ alerted' = FALSE
        /\ UNCHANGED <<aside, fleetDesired, trucks, settings, edits, places>>

\* updateJob(id, patch) with the patches the job row's inputs send
patched(j, field, v) ==
    CASE field = "type" -> [j EXCEPT !.type = v]
      [] field = "truckId" -> [j EXCEPT !.truckId = v]
      [] field = "loadMin" -> [j EXCEPT !.loadMin = v]
      [] field = "travelMin" -> [j EXCEPT !.travelMin = v]
      [] field = "onsiteMin" -> [j EXCEPT !.onsiteMin = v]
      [] field = "returnTravelMin" -> [j EXCEPT !.returnTravelMin = v]
      [] field = "earliest" -> [j EXCEPT !.earliest = v]

patchValues(field) ==
    CASE field = "type" -> {"Delivery", "Collection"}
      [] field = "truckId" -> Range(trucks) \cup {NoTruck}
      [] field = "earliest" -> EarliestValues
      [] OTHER -> MinuteValues

updateJob ==
    \E i \in DOMAIN jobs :
    \E field \in {"type", "truckId", "loadMin", "travelMin", "onsiteMin",
                  "returnTravelMin", "earliest"} :
    \E v \in patchValues(field) :
        /\ jobs' = [jobs EXCEPT ![i] = patched(jobs[i], field, v)]
        /\ scheduled' = orphanGuard(scheduled, jobs')
        /\ edits < MaxEdits
        /\ edits' = edits + 1
        /\ lastOp' = Op("other", 0, <<>>)
        /\ alerted' = FALSE
        /\ UNCHANGED <<aside, fleetDesired, trucks, settings, uidNext, places>>

removeJob ==
    \E i \in DOMAIN jobs :
        /\ jobs' = SelectSeq(jobs, LAMBDA x : x.id # jobs[i].id)
        /\ scheduled' = orphanGuard(
              SelectSeq(scheduled, LAMBDA r : r.jobId # jobs[i].id), jobs')
        /\ lastOp' = Op("other", 0, <<>>)
        /\ alerted' = FALSE
        /\ UNCHANGED <<aside, fleetDesired, trucks, settings, uidNext, edits, places>>

saveJobToSchedule ==
    \E i \in DOMAIN jobs :
        LET j == jobs[i]
            dur == jobDuration(j)
            best == bestOver(candidateTrucks(j), dur,
                             [truckId |-> NoTruck, start |-> 0])
        IN  /\ IF best.truckId # NoTruck
               THEN /\ scheduled' = placeOnSchedule(scheduled, j.id, best.truckId,
                            settings.activeDay, best.start, best.start + dur)
                    /\ lastOp' = Op("save", j.id,
                          <<[jobId |-> j.id, truckId |-> best.truckId,
                             day |-> settings.activeDay, startMin |-> best.start,
                             endMin |-> best.start + dur]>>)
                    /\ alerted' = FALSE
               ELSE /\ scheduled' = scheduled
                    /\ lastOp' = Op("save", j.id, <<>>)
                    /\ alerted' = TRUE
            /\ places < MaxPlaces
            /\ places' = places + 1
            /\ UNCHANGED <<aside, fleetDesired, trucks, jobs, settings, uidNext, edits>>

\* QuickPlace onPlace: the same probe, written inline, on the chosen truck
onPlace ==
    \E i \in DOMAIN jobs : \E truckId \in Range(trucks) :
        LET j == jobs[i]
            dur == jobDuration(j)
            end == toMin(settings.endTime)
            cur == IF settings.gap = 0 THEN NoSlot
                   ELSE slotLoop(existingOn(truckId), dur, end, settings.gap,
                                 toMin(settings.startTime))
        IN  /\ IF cur # NoSlot
               THEN /\ scheduled' = placeOnSchedule(scheduled, j.id, truckId,
                            settings.activeDay, cur, cur + dur)
                    /\ lastOp' = Op("quick", j.id,
                          <<[jobId |-> j.id, truckId |-> truckId,
                             day |-> settings.activeDay, startMin |-> cur,
                             endMin |-> cur + dur]>>)
               ELSE /\ scheduled' = scheduled
                    /\ lastOp' = Op("quick", j.id, <<>>)
            /\ places < MaxPlaces
            /\ places' = places + 1
            /\ alerted' = FALSE
            /\ UNCHANGED <<aside, fleetDesired, trucks, jobs, settings, uidNext, edits>>

autoSchedule ==
    /\ scheduled' = autoScheduleRun.sched
    /\ lastOp' = Op("auto", 0, autoScheduleRun.written)
    /\ places < MaxPlaces
    /\ places' = places + 1
    /\ alerted' = FALSE
    /\ UNCHANGED <<aside, fleetDesired, trucks, jobs, settings, uidNext, edits>>

setSettings ==
    /\ \/ \E d \in Range(DAYS) : settings' = [settings EXCEPT !.activeDay = d]
       \/ \E c \in StartValues : settings' = [settings EXCEPT !.startTime = c]
       \/ \E c \in EndValues : settings' = [settings EXCEPT !.endTime = c]
       \/ \E g \in GapValues : settings' = [settings EXCEPT !.gap = g]
       \/ \E b \in BufferValues :
              settings' = [settings EXCEPT !.bufferBetweenJobs = b]
    /\ edits < MaxEdits
    /\ edits' = edits + 1
    /\ lastOp' = Op("other", 0, <<>>)
    /\ alerted' = FALSE
    /\ UNCHANGED <<aside, fleetDesired, trucks, jobs, scheduled, uidNext, places>>

NextA ==
    \/ removeTruck
    \/ addJob
    \/ updateJob
    \/ removeJob
    \/ saveJobToSchedule
    \/ onPlace
    \/ autoSchedule
    \/ setSettings

SpecA == InitA /\ [][NextA]_vars

----------------------------------------------------------------------------
(* part_002: the pure scheduler *)

\* a NaN number (toMin of an absent clock string, undefined - number)
NaN == -999999
\* the null of an unplaced row's startMin and endMin
Null == -888888

\* the last truck number nextTruckId may hand out
MaxTruckNo == 2

\* values the inputs of part_002 are driven with
GapValues2 == {0, 30}
StartValues2 == {<<8, 0>>}
EndValues2 == {<<9, 0>>}
PriorityValues == {1, 3}
FormEarliestValues == {NoClock, <<8, 30>>}

\* toMin of part_002: no validation; an absent or empty string gives NaN
toMin2(t) == IF t = NoClock THEN NaN ELSE t[1] * 60 + t[2]

\* x || 0
orZero(x) == IF x = NaN THEN 0 ELSE x
\* a - b on numbers that may be NaN
minus(a, b) == IF a = NaN \/ b = NaN THEN NaN ELSE a - b
\* x || y on numbers: x when it is neither 0 nor NaN
jsOr(x, y) == IF x # NaN /\ x # 0 THEN x ELSE y
\* Math.max
mathMax(a, b) == IF a = NaN \/ b = NaN THEN NaN ELSE Max2(a, b)

\* the duration expression of computeAutoSchedule
dur2(j) ==
    (IF j.type = "Delivery" THEN orZero(j.loadMins) ELSE 0)
    + j.travelMins + j.onsiteMins + orZero(j.returnMins)
    + (IF j.type = "Collection" THEN orZero(j.offloadMins) ELSE 0)

\* the comparator of the dayJobs sort
compareJobs(a, b) ==
    jsOr(minus(a.priority, b.priority),
         jsOr(minus(toMin2(a.earliest), toMin2(b.earliest)),
              dur2(b) - dur2(a)))

\* a comparator result that puts a after b (NaN counts as +0)
after(v) == v # NaN /\ v > 0

\* Array.prototype.sort is stable; for a consistent comparator every stable
\* sort returns this insertion sort's result
RECURSIVE insertJob(_, _)
insertJob(sorted, x) ==
    IF sorted = <<>> THEN <<x>>
    ELSE IF ~after(compareJobs(sorted[Len(sorted)], x)) THEN Append(sorted, x)
    ELSE Append(insertJob(SubSeq(sorted, 1, Len(sorted) - 1), x),
                sorted[Len(sorted)])

RECURSIVE sortJobs(_)
sortJobs(s) ==
    IF s = <<>> THEN <<>>
    ELSE insertJob(sortJobs(SubSeq(s, 1, Len(s) - 1)), s[Len(s)])

\* dayJobs without the filter on the day
dayJobs_anyDay(js, day) == sortJobs(js)

dayJobs(js, day) == sortJobs(SelectSeq(js, LAMBDA j : j.day = day))

\* the candidate trucks left in fleet order
sortTrucks_fleetOrder(ts, avail) == ts

\* [...trucks].sort((a, b) => avail[a.id] - avail[b.id])
RECURSIVE insertTruck(_, _, _)
insertTruck(sorted, t, avail) ==
    IF sorted = <<>> THEN <<t>>
    ELSE IF ~after(minus(avail[sorted[Len(sorted)]], avail[t]))
         THEN Append(sorted, t)
    ELSE Append(insertTruck(SubSeq(sorted, 1, Len(sorted) - 1), t, avail),
                sorted[Len(sorted)])

RECURSIVE sortTrucks(_, _)
sortTrucks(ts, avail) ==
    IF ts = <<>> THEN <<>>
    ELSE insertTruck(sortTrucks(SubSeq(ts, 1, Len(ts) - 1), avail),
                     ts[Len(ts)], avail)

nullRow(j, day) ==
    [jobId |-> j.id, truckId |-> NoTruck, startMin |-> Null, endMin |-> Null,
     day |-> day]

\* tryPlace with a job that ends exactly at the window end turned away
tryPlace_strictEnd(j, t, st, c) ==
    LET earliest == mathMax(c.startMin, toMin2(j.earliest))
        s == mathMax(st.avail[t], earliest)
        en == IF s = NaN THEN NaN ELSE s + dur2(j)
    IN  IF en # NaN /\ en < c.endMin
        THEN [ok |-> TRUE,
              avail |-> [st.avail EXCEPT ![t] = en + c.gap],
              out |-> Append(st.out,
                  [jobId |-> j.id, truckId |-> t, startMin |-> s, endMin |-> en,
                   day |-> c.activeDay])]
        ELSE [ok |-> FALSE, avail |-> st.avail, out |-> st.out]

\* tryPlace(t) for job j on the running state st = [ok, avail, out]
tryPlace(j, t, st, c) ==
    LET earliest == mathMax(c.startMin, toMin2(j.earliest))
        s == mathMax(st.avail[t], earliest)
        en == IF s = NaN THEN NaN ELSE s + dur2(j)
    IN  IF en # NaN /\ en <= c.endMin
        THEN [ok |-> TRUE,
              avail |-> [st.avail EXCEPT ![t] = en + c.gap],
              out |-> Append(st.out,
                  [jobId |-> j.id, truckId |-> t, startMin |-> s, endMin |-> en,
                   day |-> c.activeDay])]
        ELSE [ok |-> FALSE, avail |-> st.avail, out |-> st.out]

RECURSIVE tryTrucks(_, _, _, _)
tryTrucks(j, cands, st, c) ==
    IF cands = <<>>
    THEN [ok |-> FALSE, avail |-> st.avail,
          out |-> Append(st.out, nullRow(j, c.activeDay))]
    ELSE LET r == tryPlace(j, Head(cands), st, c)
         IN  IF r.ok THEN r ELSE tryTrucks(j, Tail(cands), st, c)

\* the body of the loop over dayJobs
scheduleOne(j, st, c) ==
    IF j.assignedTruckId # NoTruck
    THEN IF j.assignedTruckId \in Range(c.trucks)
         THEN tryTrucks(j, <<j.assignedTruckId>>, st, c)
         ELSE tryTrucks(j, <<>>, st, c)
    ELSE tryTrucks(j, sortTrucks(c.trucks, st.avail), st, c)

RECURSIVE scheduleAll(_, _, _)
scheduleAll(js, st, c) ==
    IF js = <<>> THEN st
    ELSE scheduleAll(Tail(js), scheduleOne(Head(js), st, c), c)

computeAutoSchedule(js, ts, activeDay, sMin, eMin, bufferBetweenJobs) ==
    scheduleAll(dayJobs(js, activeDay),
        [ok |-> TRUE, avail |-> [t \in Range(ts) |-> sMin], out |-> <<>>],
        [trucks |-> ts, activeDay |-> activeDay, startMin |-> sMin,
         endMin |-> eMin, gap |-> bufferBetweenJobs]).out

----------------------------------------------------------------------------
(* part_002: the application *)

computedFor(js, ts, st) ==
    computeAutoSchedule(js, ts, st.activeDay, toMin2(st.startTime),
                        toMin2(st.endTime), st.gap)

\* autoSchedule that appends to the previous rows without dropping the day's
autoSchedule2_append(prev, js, ts, st) == prev \o computedFor(js, ts, st)

\* autoSchedule: setScheduled(prev => [...other days, ...computed])
autoSchedule2(prev, js, ts, st) ==
    SelectSeq(prev, LAMBDA s : s.day # st.activeDay) \o computedFor(js, ts, st)

nextTruckId(ts) ==
    (IF ts = <<>> THEN 0 ELSE CHOOSE m \in Range(ts) : \A t \in Range(ts) : t <= m)
    + 1

\* the application with an empty job list and the fleet cut down to two
\* trucks (DEFAULT_TRUCKS holds ten; the fleet is loaded from local storage)
Init2 ==
    /\ trucks = <<1, 2>>
    /\ jobs = <<>>
    /\ scheduled = <<>>
    /\ settings = [startTime |-> <<7, 0>>, endTime |-> <<18, 0>>, gap |-> 10,
                   activeDay |-> "Mon"]
    /\ uidNext = 3
    /\ edits = 0
    /\ places = 0
    /\ lastOp = Op("other", 0, <<>>)
    /\ fleetDesired = 2
    /\ sess = Unused /\ store = Unused /\ inbox = Unused /\ timer = Unused
    /\ arg = Unused /\ result = Unused
    /\ alerted = FALSE /\ sharedOn = Unused /\ sharedInfo = Unused

\* a handler changed a dependency of the scheduling effect: it runs afterwards
ranEffect(sched) ==
    /\ scheduled' = autoSchedule2(sched, jobs', trucks', settings')
    /\ lastOp' = Op("effect", 0, computedFor(jobs', trucks', settings'))

setSetting2 ==
    /\ edits < MaxEdits
    /\ edits' = edits + 1
    /\ \/ \E d \in Range(DAYS) : settings' = [settings EXCEPT !.activeDay = d]
       \/ \E v \in StartValues2 : settings' = [settings EXCEPT !.startTime = v]
       \/ \E v \in EndValues2 : settings' = [settings EXCEPT !.endTime = v]
       \/ \E g \in GapValues2 : settings' = [settings EXCEPT !.gap = g]
    /\ UNCHANGED <<alerted, aside, trucks, jobs, uidNext, places, fleetDesired>>
    /\ IF settings' # settings
       THEN ranEffect(scheduled)
       ELSE scheduled' = scheduled /\ lastOp' = Op("other", 0, <<>>)

addTruck2 ==
    /\ nextTruckId(trucks) <= MaxTruckNo
    /\ trucks' = Append(trucks, nextTruckId(trucks))
    /\ fleetDesired' = fleetDesired + 1
    /\ UNCHANGED <<alerted, aside, jobs, settings, uidNext, edits, places>>
    /\ ranEffect(scheduled)

unassign(js, ids) ==
    [i \in DOMAIN js |->
        IF js[i].assignedTruckId \in ids
        THEN [js[i] EXCEPT !.assignedTruckId = NoTruck] ELSE js[i]]

removeTruckById ==
    \E id \in Range(trucks) :
        /\ trucks' = SelectSeq(trucks, LAMBDA t : t # id)
        /\ jobs' = unassign(jobs, {id})
        /\ fleetDesired' = Max2(0, fleetDesired - 1)
        /\ UNCHANGED <<alerted, aside, settings, uidNext, edits, places>>
        /\ ranEffect(SelectSeq(scheduled, LAMBDA x : x.truckId # id))

RECURSIVE grow(_, _)
grow(ts, k) == IF k = 0 THEN ts ELSE grow(Append(ts, nextTruckId(ts)), k - 1)

\* the ids applyFleetDesired removes: the highest-numbered trucks
RECURSIVE highest(_, _)
highest(S, k) ==
    IF k = 0 \/ S = {} THEN {}
    ELSE LET m == CHOOSE x \in S : \A y \in S : y <= x
         IN  {m} \cup highest(S \ {m}, k - 1)

\* the count input is typed, then "Set count" is clicked
applyFleetDesired ==
    \E n \in 0 .. MaxTruckNo :
        /\ fleetDesired' = n
        /\ UNCHANGED <<alerted, aside, settings, uidNext, edits, places>>
        /\ IF n = Len(trucks)
           THEN /\ UNCHANGED <<alerted, aside, trucks, jobs, scheduled>>
                /\ lastOp' = Op("other", 0, <<>>)
           ELSE IF n > Len(trucks)
           THEN /\ nextTruckId(trucks) + (n - Len(trucks)) - 1 <= MaxTruckNo
                /\ trucks' = grow(trucks, n - Len(trucks))
                /\ jobs' = jobs
                /\ ranEffect(scheduled)
           ELSE LET removeIds == highest(Range(trucks), Len(trucks) - n)
                IN  /\ trucks' = SelectSeq(trucks, LAMBDA t : t \notin removeIds)
                    /\ jobs' = unassign(jobs, removeIds)
                    /\ ranEffect(SelectSeq(scheduled,
                           LAMBDA x : x.truckId \notin removeIds))

\* the Add Job form
addJob2 ==
    \E type \in {"Delivery", "Collection"} : \E day \in Range(DAYS) :
    \E earliest \in FormEarliestValues : \E priority \in PriorityValues :
        /\ uidNext <= MaxUid
        /\ jobs' = Append(jobs,
              [id |-> uidNext, type |-> type, day |-> day,
               earliest |-> IF earliest = NoClock THEN <<7, 0>> ELSE earliest,
               loadMins |-> IF type = "Delivery" THEN 30 ELSE 0,
               travelMins |-> 30, onsiteMins |-> 30, returnMins |-> 0,
               offloadMins |-> IF type = "Collection" THEN 30 ELSE 0,
               priority |-> priority, assignedTruckId |-> NoTruck])
        /\ uidNext' = uidNext + 1
        /\ UNCHANGED <<alerted, aside, trucks, settings, edits, places, fleetDesired>>
        /\ ranEffect(scheduled)

\* the edit form, submitted with one input changed
editJob2 ==
    \E i \in DOMAIN jobs :
        /\ edits < MaxEdits
        /\ edits' = edits + 1
        /\ \/ \E d \in Range(DAYS) : jobs' = [jobs EXCEPT ![i].day = d]
           \/ \E e \in FormEarliestValues \ {NoClock} :
                  jobs' = [jobs EXCEPT ![i].earliest = e]
           \/ \E p \in PriorityValues : jobs' = [jobs EXCEPT ![i].priority = p]
           \/ \E m \in MinuteValues : jobs' = [jobs EXCEPT ![i].travelMins = m]
           \/ \E t \in Range(trucks) :
                  jobs' = [jobs EXCEPT ![i].assignedTruckId = t]
        /\ UNCHANGED <<alerted, aside, trucks, settings, uidNext, places, fleetDesired>>
        /\ ranEffect(scheduled)

deleteJob2 ==
    \E i \in DOMAIN jobs :
        /\ jobs' = SelectSeq(jobs, LAMBDA x : x.id # jobs[i].id)
        /\ UNCHANGED <<alerted, aside, trucks, settings, uidNext, edits, places, fleetDesired>>
        /\ ranEffect(SelectSeq(scheduled, LAMBDA x : x.jobId # jobs[i].id))

\* the Auto button
autoButton ==
    /\ scheduled' = autoSchedule2(scheduled, jobs, trucks, settings)
    /\ lastOp' = Op("auto", 0, computedFor(jobs, trucks, settings))
    /\ UNCHANGED <<alerted, aside, trucks, jobs, settings, uidNext, edits, places, fleetDesired>>

\* the Clear button
clearButton ==
    /\ scheduled' = <<>>
    /\ lastOp' = Op("clear", 0, <<>>)
    /\ UNCHANGED <<alerted, aside, trucks, jobs, settings, uidNext, edits, places, fleetDesired>>

Next2 ==
    \/ setSetting2
    \/ addTruck2
    \/ removeTruckById
    \/ applyFleetDesired
    \/ addJob2
    \/ editJob2
    \/ deleteJob2
    \/ autoButton
    \/ clearButton

Spec2 == Init2 /\ [][Next2]_vars

----------------------------------------------------------------------------
(* part_002 with a second session writing to the shared row *)

\* the postgres_changes handler, when the other session has deleted a job:
\* the blob holds this session's trucks and settings and the shorter job
\* list.  setJobs installs the list and the scheduling effect runs.
remoteUpdate2 ==
    \E i \in DOMAIN jobs :
        /\ jobs' = SelectSeq(jobs, LAMBDA x : x.id # jobs[i].id)
        /\ UNCHANGED <<alerted, aside, trucks, settings, uidNext, edits, places,
                       fleetDesired>>
        /\ ranEffect(scheduled)

NextShared2 ==
    \/ setSetting2
    \/ addTruck2
    \/ removeTruckById
    \/ applyFleetDesired
    \/ addJob2
    \/ editJob2
    \/ deleteJob2
    \/ autoButton
    \/ clearButton
    \/ remoteUpdate2

SpecShared2 == Init2 /\ [][NextShared2]_vars

----------------------------------------------------------------------------
(* The duration and ordering functions, applied on their own *)

\* how many jobs the list handed to the sort holds
SortLen == 2

DurationValues == {-5, 0, 30}
OffloadValues == {0, 30}
SortPriorityValues == {NaN, 1, 3, 5}
SortEarliestValues == {NoClock, <<7, 0>>, <<8, 30>>}
SortTravelValues == {30, 60}
SortStartValues == {420, 480}

NoResult == [fn |-> "none", value |-> 0]

\* the Job of part_000 with the given minutes
asJob(a) ==
    [id |-> 1, type |-> a.type, loadMin |-> a.load, travelMin |-> a.travel,
     onsiteMin |-> a.onsite, returnTravelMin |-> a.ret]

\* the job of part_002 with the given minutes
asJob2(a) ==
    [id |-> 1, type |-> a.type, day |-> "Mon", earliest |-> <<7, 0>>,
     loadMins |-> a.load, travelMins |-> a.travel, onsiteMins |-> a.onsite,
     returnMins |-> a.ret, offloadMins |-> a.offload, priority |-> 3,
     assignedTruckId |-> NoTruck]

\* [...].filter(seg => seg.minutes > 0)
positiveOnly(segs) == SelectSeq(segs, LAMBDA x : x.minutes > 0)

Seg(label, minutes) == [label |-> label, minutes |-> minutes]

\* segmentsFor of part_000: four segments per kind, the empty ones dropped
segmentsFor(j) ==
    IF j.type = "Delivery"
    THEN positiveOnly(<<Seg("Load", j.loadMin), Seg("Travel", j.travelMin),
                        Seg("Offload", j.onsiteMin),
                        Seg("Return", IF j.returnTravelMin = 0 THEN 0
                                      ELSE j.returnTravelMin)>>)
    ELSE positiveOnly(<<Seg("Off-site load", j.loadMin),
                        Seg("Travel", j.travelMin),
                        Seg("On-site", j.onsiteMin),
                        Seg("Return", IF j.returnTravelMin = 0 THEN 0
                                      ELSE j.returnTravelMin)>>)

\* segs of part_002: pushes in the order Load, Travel, On-site, Return,
\* Offload, then drops the empty ones
segs(j) ==
    positiveOnly(
        (IF j.type = "Delivery" /\ orZero(j.loadMins) > 0
         THEN <<Seg("Load", orZero(j.loadMins))>> ELSE <<>>)
        \o <<Seg("Travel", orZero(j.travelMins)),
              Seg("On-site", orZero(j.onsiteMins))>>
        \o (IF orZero(j.returnMins) > 0
            THEN <<Seg("Return", orZero(j.returnMins))>> ELSE <<>>)
        \o (IF j.type = "Collection" /\ orZero(j.offloadMins) > 0
            THEN <<Seg("Offload", orZero(j.offloadMins))>> ELSE <<>>))

appAtRest ==
    /\ trucks = <<>>
    /\ jobs = <<>>
    /\ scheduled = <<>>
    /\ settings = DEFAULT_SETTINGS
    /\ uidNext = 1
    /\ edits = 0
    /\ places = 0
    /\ lastOp = Op("other", 0, <<>>)
    /\ fleetDesired = 0
    /\ sess = Unused /\ store = Unused /\ inbox = Unused /\ timer = Unused
    /\ alerted = FALSE /\ sharedOn = Unused /\ sharedInfo = Unused

app == <<trucks, jobs, scheduled, settings, uidNext, edits, places, lastOp,
         fleetDesired, sess, store, inbox, timer, alerted, sharedOn,
         sharedInfo>>

InitDur ==
    /\ appAtRest
    /\ arg \in [type : {"Delivery", "Collection"}, load : DurationValues,
                travel : DurationValues, onsite : DurationValues,
                ret : DurationValues, offload : OffloadValues]
    /\ result = NoResult

callJobDuration ==
    /\ result' = [fn |-> "jobDuration", value |-> jobDuration(asJob(arg))]
    /\ UNCHANGED <<app, arg>>

callDur2 ==
    /\ result' = [fn |-> "dur2", value |-> dur2(asJob2(arg))]
    /\ UNCHANGED <<app, arg>>

NextDur ==
    \/ callJobDuration
    \/ callDur2

SpecDur == InitDur /\ [][NextDur]_vars

callSegmentsFor ==
    /\ result' = [fn |-> "segmentsFor", value |-> segmentsFor(asJob(arg))]
    /\ UNCHANGED <<app, arg>>

callSegs ==
    /\ result' = [fn |-> "segs", value |-> segs(asJob2(arg))]
    /\ UNCHANGED <<app, arg>>

NextSeg ==
    \/ callSegmentsFor
    \/ callSegs

SpecSeg == InitDur /\ [][NextSeg]_vars

sortJob(i, f) ==
    [id |-> i, type |-> "Delivery", day |-> "Mon", earliest |-> f.earliest,
     loadMins |-> 30, travelMins |-> f.travel, onsiteMins |-> 30,
     returnMins |-> 0, offloadMins |-> 0, priority |-> f.priority,
     assignedTruckId |-> NoTruck]

InitSort ==
    /\ appAtRest
    /\ \E fs \in [1 .. SortLen -> [priority : SortPriorityValues,
                                   earliest : SortEarliestValues,
                                   travel : SortTravelValues]] :
       \E sm \in SortStartValues :
           arg = [jobs |-> [i \in 1 .. SortLen |-> sortJob(i, fs[i])],
                  startMin |-> sm]
    /\ result = NoResult

callSort ==
    /\ result' = [fn |-> "dayJobs", value |-> dayJobs(arg.jobs, "Mon")]
    /\ UNCHANGED <<app, arg>>

NextSort == callSort

SpecSort == InitSort /\ [][NextSort]_vars

----------------------------------------------------------------------------
(* The first-fit probe of part_000, one loop iteration at a time *)

ProbeStartValues == {<<7, 0>>, <<7, 10>>}
ProbeEndValues == {<<9, 0>>, <<10, 0>>}
ProbeGapValues == {-15, 0, 20, 30}
ProbeDurValues == {30, 60, 90}

probeRow(jobId, truckId, day, st, en) ==
    [jobId |-> jobId, truckId |-> truckId, day |-> day, startMin |-> st,
     endMin |-> en]

\* rows of job 1 and of job 2 (a job has at most one row a day)
ProbeRows1 ==
    {probeRow(1, 1, "Mon", 420, 480), probeRow(1, 1, "Mon", 450, 510),
     probeRow(1, 1, "Mon", 480, 540)}
ProbeRows2 ==
    {probeRow(2, 1, "Mon", 510, 570), probeRow(2, 2, "Mon", 420, 480),
     probeRow(2, 1, "Tue", 420, 480)}
ProbeSchedules ==
    {<<>>} \cup {<<r>> : r \in ProbeRows1 \cup ProbeRows2}
    \cup {<<a, b>> : a \in ProbeRows1, b \in ProbeRows2}
    \cup {<<b, a>> : a \in ProbeRows1, b \in ProbeRows2}

probeJob(i) ==
    [id |-> i, type |-> "Delivery", loadMin |-> 30, travelMin |-> 30,
     onsiteMin |-> 30, returnTravelMin |-> 0, earliest |-> NoClock,
     truckId |-> NoTruck]

NotProbing == [fn |-> "none", pc |-> "none", cur |-> 0, value |-> NoSlot,
               tried |-> NoSlot, free |-> FALSE]

InitProbe ==
    /\ trucks = <<1, 2>>
    /\ jobs = <<probeJob(1), probeJob(2)>>
    /\ scheduled \in ProbeSchedules
    /\ \E st \in ProbeStartValues : \E en \in ProbeEndValues :
       \E g \in ProbeGapValues :
           settings = [DEFAULT_SETTINGS EXCEPT !.startTime = st,
                           !.endTime = en, !.gap = g]
    /\ uidNext = 3
    /\ edits = 0
    /\ places = 0
    /\ lastOp = Op("other", 0, <<>>)
    /\ fleetDesired = 0
    /\ sess = Unused /\ store = Unused /\ inbox = Unused /\ timer = Unused
    /\ alerted = FALSE /\ sharedOn = Unused /\ sharedInfo = Unused
    /\ \E d \in ProbeDurValues : arg = [truckId |-> 1, dur |-> d]
    /\ result = NotProbing

\* snap with a cursor left where it is when the gap is 0
snapNum_keptAtZero(m, gap) ==
    IF m = NaN THEN NaN ELSE IF gap = 0 THEN m ELSE snap(m, gap)

\* Math.ceil(m / gap) * gap as a number: gap = 0 gives Infinity * 0 or
\* Math.ceil(0 / 0), both NaN
snapNum(m, gap) ==
    IF m = NaN \/ gap = 0 THEN NaN ELSE snap(m, gap)

\* the loop is entered: let cur = toMin(settings.startTime), from
\* earliestSlotOnTruck or from QuickPlace's onPlace
probeStart ==
    /\ result.fn = "none"
    /\ \E caller \in {"earliestSlotOnTruck", "onPlace"} :
           result' = [NotProbing EXCEPT !.fn = caller, !.pc = "loop",
                          !.cur = toMin(settings.startTime)]
    /\ UNCHANGED <<app, arg>>

\* the loop test and, when it passes, one run of the loop body
probeStep ==
    /\ result.pc = "loop"
    /\ LET dayEnd == toMin(settings.endTime)
           c == snapNum(result.cur, settings.gap)
           ok == c # NaN /\ fitsAt(existingOn(arg.truckId), arg.dur, dayEnd, c)
       IN  IF ~(result.cur # NaN /\ result.cur + arg.dur <= dayEnd)
           THEN result' = [result EXCEPT !.pc = "done", !.value = NoSlot]
           ELSE IF ok
           THEN result' = [result EXCEPT !.pc = "done", !.cur = c, !.value = c,
                               !.tried = c, !.free = TRUE]
           ELSE result' = [result EXCEPT
                               !.cur = IF c = NaN THEN NaN ELSE c + settings.gap,
                               !.tried = c, !.free = FALSE]
    /\ UNCHANGED <<app, arg>>

NextProbe ==
    \/ probeStart
    \/ probeStep

SpecProbe == InitProbe /\ [][NextProbe]_vars

\* a handler that was called runs to its end
SpecProbeFair == SpecProbe /\ WF_vars(NextProbe)

----------------------------------------------------------------------------
(* The clock helpers on the text of a clock string *)

\* a string is the sequence of its characters
DigitChars == <<"0", "1", "2", "3", "4", "5", "6", "7", "8", "9">>
isDigit(c) == \E d \in DOMAIN DigitChars : DigitChars[d] = c
digitVal(c) == (CHOOSE d \in DOMAIN DigitChars : DigitChars[d] = c) - 1
allDigits(s) == \A i \in DOMAIN s : isDigit(s[i])

\* String(n) of an integer n >= 0
RECURSIVE decimal(_)
decimal(n) ==
    IF n < 10 THEN <<DigitChars[n + 1]>>
    ELSE Append(decimal(n \div 10), DigitChars[(n % 10) + 1])

\* parseInt of a string of digits
RECURSIVE digitsValue(_)
digitsValue(s) ==
    IF s = <<>> THEN 0
    ELSE digitsValue(SubSeq(s, 1, Len(s) - 1)) * 10 + digitVal(s[Len(s)])

\* part_000: pad2
pad2(n) == IF n < 10 THEN <<"0">> \o decimal(n) ELSE decimal(n)

\* part_000: toMin on the text; the pattern is ^(\d{1,2}):(\d{2})$
toMinStr(t) ==
    LET n == Len(t)
    IN  IF /\ n \in {4, 5}
           /\ t[n - 2] = ":"
           /\ allDigits(SubSeq(t, 1, n - 3))
           /\ allDigits(SubSeq(t, n - 1, n))
        THEN clamp(digitsValue(SubSeq(t, 1, n - 3)) * 60
                       + digitsValue(SubSeq(t, n - 1, n)), 0, 24 * 60)
        ELSE 0

\* part_000: toHHMM of an integer (Math.round leaves it as it is)
toHHMM(min) ==
    LET m == clamp(min, 0, 24 * 60 - 1)
    IN  pad2(m \div 60) \o <<":">> \o pad2(m % 60)

\* part_002: Number of a piece of the split string
number(piece) ==
    IF piece = <<>> THEN 0
    ELSE IF allDigits(piece) THEN digitsValue(piece) ELSE NaN

\* part_002: toMin on the text: split(":"), Number of the first two pieces
toMinStr2(t) ==
    LET colons == {i \in DOMAIN t : t[i] = ":"}
        c1 == CHOOSE i \in colons : \A k \in colons : i <= k
        rest == {i \in colons : i > c1}
        c2 == IF rest = {} THEN Len(t) + 1
              ELSE CHOOSE i \in rest : \A k \in rest : i <= k
        h == number(SubSeq(t, 1, c1 - 1))
        m == number(SubSeq(t, c1 + 1, c2 - 1))
    IN  IF colons = {} \/ h = NaN \/ m = NaN THEN NaN ELSE h * 60 + m

\* String(n).padStart(2, "0")
padStart2(n) == IF Len(decimal(n)) < 2 THEN <<"0">> \o decimal(n) ELSE decimal(n)

\* hhmm with the hour rounded instead of floored
hhmm_roundedHour(m) ==
    IF m = NaN THEN <<"N", "a", "N", ":", "N", "a", "N">>
    ELSE padStart2((m + 30) \div 60) \o <<":">> \o padStart2(m % 60)

\* part_002: hhmm of an integer m >= 0
hhmm(m) ==
    IF m = NaN THEN <<"N", "a", "N", ":", "N", "a", "N">>
    ELSE padStart2(m \div 60) \o <<":">> \o padStart2(m % 60)

\* the minutes of a day and the zero-padded clock strings of a day
DayMinutes == 0 .. (24 * 60 - 1)
ClockTexts ==
    {<<DigitChars[(h \div 10) + 1], DigitChars[(h % 10) + 1], ":",
       DigitChars[(m \div 10) + 1], DigitChars[(m % 10) + 1]>> :
        h \in 0 .. 23, m \in 0 .. 59}

InitClock ==
    /\ appAtRest
    /\ \/ \E m \in DayMinutes : arg = [kind |-> "minute", minute |-> m, text |-> <<>>]
       \/ \E t \in ClockTexts : arg = [kind |-> "text", minute |-> 0, text |-> t]
    /\ result = NoResult

\* part_000: toMin(toHHMM(m))
callToMinOfToHHMM ==
    /\ arg.kind = "minute"
    /\ result' = [fn |-> "toMin(toHHMM)", value |-> toMinStr(toHHMM(arg.minute))]
    /\ UNCHANGED <<app, arg>>

\* part_000: toHHMM(toMin(s))
callToHHMMOfToMin ==
    /\ arg.kind = "text"
    /\ result' = [fn |-> "toHHMM(toMin)", value |-> toHHMM(toMinStr(arg.text))]
    /\ UNCHANGED <<app, arg>>

\* part_002: toMin(hhmm(m))
callToMinOfHhmm ==
    /\ arg.kind = "minute"
    /\ result' = [fn |-> "toMin(hhmm)", value |-> toMinStr2(hhmm(arg.minute))]
    /\ UNCHANGED <<app, arg>>

\* part_002: hhmm(toMin(s))
callHhmmOfToMin ==
    /\ arg.kind = "text"
    /\ result' = [fn |-> "hhmm(toMin)", value |-> hhmm(toMinStr2(arg.text))]
    /\ UNCHANGED <<app, arg>>

NextClock ==
    \/ callToMinOfToHHMM
    \/ callToHHMMOfToMin
    \/ callToMinOfHhmm
    \/ callHhmmOfToMin

SpecClock == InitClock /\ [][NextClock]_vars

----------------------------------------------------------------------------
(* computeAutoSchedule, applied on its own *)

\* how many equal jobs the one truck is asked to take
TenJobCounts == 1 .. 10
\* window starts and lengths, and buffers, of the runs with equal jobs
TenStartValues == {0, 360}
TenWindowValues == {600, 1080}
TenBufferValues == {0, 10}
\* earliest times and window ends of the runs with one or two jobs
ComputeEarliestValues == {NoClock, <<7, 0>>, <<8, 30>>}
ComputeEndValues == {540, 1080}

\* the clock string of minute m
clockOf(m) == <<m \div 60, m % 60>>

\* a 2-hour delivery that may start when the window opens
twoHourJob(i, sMin) ==
    [id |-> i, type |-> "Delivery", day |-> "Mon", earliest |-> clockOf(sMin),
     loadMins |-> 30, travelMins |-> 30, onsiteMins |-> 30, returnMins |-> 30,
     offloadMins |-> 0, priority |-> 3, assignedTruckId |-> NoTruck]

\* a 90-minute delivery with the given earliest time
earliestJob(i, e) ==
    [id |-> i, type |-> "Delivery", day |-> "Mon", earliest |-> e,
     loadMins |-> 30, travelMins |-> 30, onsiteMins |-> 30, returnMins |-> 0,
     offloadMins |-> 0, priority |-> 3, assignedTruckId |-> NoTruck]

ComputeInputs ==
    {[jobs |-> [i \in 1 .. n |-> twoHourJob(i, sm)], trucks |-> <<1>>,
      startMin |-> sm, endMin |-> sm + w, buffer |-> b] :
        n \in TenJobCounts, sm \in TenStartValues, w \in TenWindowValues,
        b \in TenBufferValues}
    \cup
    {[jobs |-> [i \in 1 .. n |-> earliestJob(i, es[i])], trucks |-> <<1, 2>>,
      startMin |-> 420, endMin |-> em, buffer |-> 0] :
        n \in 1 .. 2, es \in [1 .. 2 -> ComputeEarliestValues],
        em \in ComputeEndValues}

InitCompute ==
    /\ appAtRest
    /\ arg \in ComputeInputs
    /\ result = NoResult

callCompute ==
    /\ result' = [fn |-> "computeAutoSchedule",
                  value |-> computeAutoSchedule(arg.jobs, arg.trucks, "Mon",
                                arg.startMin, arg.endMin, arg.buffer)]
    /\ UNCHANGED <<app, arg>>

NextCompute == callCompute

SpecCompute == InitCompute /\ [][NextCompute]_vars

----------------------------------------------------------------------------
(* Shared mode: sessions connected to the one app_state row "shared" *)

Sessions == {1, 2}

SyncGapValues == {30}

\* the time input emptied: startTime ""
SyncStartValues == {NoClock}

\* how many edits and sharing toggles the sessions make in all
MaxSyncOps == 2

\* part_000: how many undelivered notifications a session may have when a
\* further write is sent (every delivery there re-arms the receiver's timeout)
MaxInbox == 3

\* the row as the connect effect leaves it when it had to create it: data {}
EmptyData == [present |-> FALSE]

\* a change notification: the new data of the row.  writer is _meta.clientId
\* in part_002; part_000 sends no such field, there it is history only.
Blob(data, s) == [data |-> data, writer |-> s]

notifyAll(b) == [t \in Sessions |-> Append(inbox[t], b)]

\* history: the last step of shared mode and the session that took it
SyncOp(name, s) == Op(name, s, <<>>)

\* connection status: sharedInfo.connected, sharedInfo.error # null, and
\* whether the supabase state holds a client
Status(connected, error, client) ==
    [connected |-> connected, error |-> error, client |-> client]

\* a session's timeouts: the data each pending one captured, oldest first, and
\* whether the one created last is still pending
NoTimer == [pending |-> <<>>, cur |-> FALSE]

\* clearTimeout of the timeout created last
clearCur(t) ==
    IF t.cur
    THEN [pending |-> SubSeq(t.pending, 1, Len(t.pending) - 1), cur |-> FALSE]
    ELSE t

\* setTimeout of a write of data
arm(t, data) == [pending |-> Append(t.pending, data), cur |-> TRUE]

\* the oldest timeout fired
fired(t) == [pending |-> Tail(t.pending), cur |-> t.cur /\ Len(t.pending) > 1]

singleAppAtRest ==
    /\ trucks = <<>>
    /\ jobs = <<>>
    /\ scheduled = <<>>
    /\ settings = DEFAULT_SETTINGS
    /\ uidNext = 1
    /\ places = 0
    /\ fleetDesired = 0
    /\ arg = Unused /\ result = Unused
    /\ alerted = FALSE

singleApp == <<trucks, jobs, scheduled, settings, uidNext, places,
               fleetDesired, arg, result, alerted>>

(* part_002 *)

local2 ==
    [present |-> TRUE, trucks |-> <<1, 2>>, clients |-> <<>>, jobs |-> <<>>,
     settings |-> [startTime |-> <<7, 0>>, endTime |-> <<18, 0>>, gap |-> 10,
                   activeDay |-> "Mon"]]

\* the save effect: the previous run's cleanup, then the guard and setTimeout
saveEffect2(t, on, info, data) ==
    IF on /\ info.client THEN arm(clearCur(t), data) ELSE clearCur(t)

\* both sessions have connected: the row exists, and the save effect ran when
\* supabase was set, so each session's timeout is pending
InitSync2 ==
    /\ singleAppAtRest
    /\ edits = 0
    /\ lastOp = SyncOp("other", 0)
    /\ sess = [s \in Sessions |-> local2]
    /\ store = Blob(EmptyData, 0)
    /\ inbox = [s \in Sessions |-> <<>>]
    /\ timer = [s \in Sessions |-> arm(NoTimer, local2)]
    /\ sharedOn = [s \in Sessions |-> TRUE]
    /\ sharedInfo = [s \in Sessions |-> Status(TRUE, FALSE, TRUE)]

\* a handler of the session changes a dependency of the save effect
edit2(s) ==
    /\ edits < MaxSyncOps
    /\ edits' = edits + 1
    /\ \/ \E d \in Range(DAYS) :
              /\ d # sess[s].settings.activeDay
              /\ sess' = [sess EXCEPT ![s].settings.activeDay = d]
       \/ \E v \in SyncStartValues :
              /\ v # sess[s].settings.startTime
              /\ sess' = [sess EXCEPT ![s].settings.startTime = v]
    /\ timer' = [timer EXCEPT
           ![s] = saveEffect2(@, sharedOn[s], sharedInfo[s], sess'[s])]
    /\ lastOp' = SyncOp("edit", s)
    /\ UNCHANGED <<singleApp, store, inbox, sharedOn, sharedInfo>>

\* the timeout fires: the upsert of the captured state with the clientId
saveTimer2(s) ==
    /\ timer[s].pending # <<>>
    /\ timer' = [timer EXCEPT ![s] = fired(@)]
    /\ store' = Blob(Head(timer[s].pending), s)
    /\ inbox' = notifyAll(Blob(Head(timer[s].pending), s))
    /\ sharedInfo' = [sharedInfo EXCEPT ![s].error = FALSE]
    /\ lastOp' = SyncOp("save", s)
    /\ UNCHANGED <<singleApp, edits, sess, sharedOn>>

\* the field-by-field overwrite of the postgres_changes handler
applyRemote2(loc, d) ==
    IF ~d.present THEN loc
    ELSE [present |-> TRUE, trucks |-> d.trucks, clients |-> d.clients,
          jobs |-> d.jobs,
          settings |->
              [startTime |-> IF d.settings.startTime # NoClock
                             THEN d.settings.startTime
                             ELSE loc.settings.startTime,
               endTime |-> IF d.settings.endTime # NoClock
                           THEN d.settings.endTime ELSE loc.settings.endTime,
               gap |-> d.settings.gap,
               activeDay |-> d.settings.activeDay]]

\* the handler without its first line, if (!alive) return
receive2_alwaysAlive(s) ==
    /\ inbox[s] # <<>>
    /\ inbox' = [inbox EXCEPT ![s] = Tail(@)]
    /\ IF \/ Head(inbox[s]).writer = s
          \/ ~Head(inbox[s]).data.present
       THEN UNCHANGED <<sess, timer>>
       ELSE /\ sess' = [sess EXCEPT ![s] = applyRemote2(@, Head(inbox[s]).data)]
            /\ timer' = [timer EXCEPT
                   ![s] = saveEffect2(@, sharedOn[s], sharedInfo[s], sess'[s])]
    /\ lastOp' = SyncOp(IF Head(inbox[s]).writer = s
                        THEN "ignored" ELSE "receive", s)
    /\ UNCHANGED <<singleApp, edits, store, sharedOn, sharedInfo>>

\* the postgres_changes handler; setTrucks, setClients and setJobs install
\* fresh arrays, so the save effect runs again.  The effect's cleanup set
\* alive to false when sharing was switched off.  The history says "ignored"
\* when the handler returned at one of its two guards, and "receive" when it
\* ran to its last line, which writes lastSync.
receive2(s) ==
    /\ inbox[s] # <<>>
    /\ inbox' = [inbox EXCEPT ![s] = Tail(@)]
    /\ IF \/ ~sharedOn[s]
          \/ Head(inbox[s]).writer = s
          \/ ~Head(inbox[s]).data.present
       THEN UNCHANGED <<sess, timer>>
       ELSE /\ sess' = [sess EXCEPT ![s] = applyRemote2(@, Head(inbox[s]).data)]
            /\ timer' = [timer EXCEPT
                   ![s] = saveEffect2(@, sharedOn[s], sharedInfo[s], sess'[s])]
    /\ lastOp' = SyncOp(IF ~sharedOn[s] \/ Head(inbox[s]).writer = s
                        THEN "ignored" ELSE "receive", s)
    /\ UNCHANGED <<singleApp, edits, store, sharedOn, sharedInfo>>

NextSync2 ==
    \E s \in Sessions :
        \/ edit2(s)
        \/ saveTimer2(s)
        \/ receive2(s)

SpecSync2 == InitSync2 /\ [][NextSync2]_vars

\* every pending timeout fires and every notification is delivered
SpecSync2Fair ==
    /\ SpecSync2
    /\ \A s \in Sessions : WF_vars(saveTimer2(s)) /\ WF_vars(receive2(s))

(* part_002: the sharing switch and failing calls *)

\* the upsert fails.  A rejected promise is caught and recorded; an { error }
\* result is ignored and the status is set as after a successful write.
saveTimerFails2(s) ==
    /\ timer[s].pending # <<>>
    /\ timer' = [timer EXCEPT ![s] = fired(@)]
    /\ \E thrown \in BOOLEAN :
           sharedInfo' = [sharedInfo EXCEPT ![s].error = thrown]
    /\ lastOp' = SyncOp("saveFailed", s)
    /\ UNCHANGED <<singleApp, edits, sess, store, inbox, sharedOn>>

\* sharing is switched off: the connect effect drops the client and the save
\* effect's cleanup clears its timeout
disable2(s) ==
    /\ sharedOn[s]
    /\ edits < MaxSyncOps
    /\ edits' = edits + 1
    /\ sharedOn' = [sharedOn EXCEPT ![s] = FALSE]
    /\ sharedInfo' = [sharedInfo EXCEPT ![s].connected = FALSE,
                                        ![s].client = FALSE]
    /\ timer' = [timer EXCEPT
           ![s] = saveEffect2(@, FALSE, sharedInfo'[s], sess[s])]
    /\ lastOp' = SyncOp("disable", s)
    /\ UNCHANGED <<singleApp, sess, store, inbox>>

\* sharing is switched on and the connect effect succeeds: the row is read
\* and applied, the status set, and the save effect runs
enable2(s) ==
    /\ ~sharedOn[s]
    /\ edits < MaxSyncOps
    /\ edits' = edits + 1
    /\ sharedOn' = [sharedOn EXCEPT ![s] = TRUE]
    /\ sharedInfo' = [sharedInfo EXCEPT ![s] = Status(TRUE, FALSE, TRUE)]
    /\ sess' = [sess EXCEPT ![s] = applyRemote2(@, store.data)]
    /\ timer' = [timer EXCEPT
           ![s] = saveEffect2(@, TRUE, sharedInfo'[s], sess'[s])]
    /\ lastOp' = SyncOp("enable", s)
    /\ UNCHANGED <<singleApp, store, inbox>>

\* sharing is switched on and the connect step fails.  If loading the client
\* throws, the catch records the error.  If the select returns an { error }
\* other than a missing row, nothing is applied and the status is set to
\* connected without an error.
enableFails2(s) ==
    /\ ~sharedOn[s]
    /\ edits < MaxSyncOps
    /\ edits' = edits + 1
    /\ sharedOn' = [sharedOn EXCEPT ![s] = TRUE]
    /\ \E thrown \in BOOLEAN :
           /\ sharedInfo' = [sharedInfo EXCEPT ![s] =
                  IF thrown THEN Status(FALSE, TRUE, FALSE)
                  ELSE Status(TRUE, FALSE, TRUE)]
           /\ timer' = [timer EXCEPT
                  ![s] = saveEffect2(@, TRUE, sharedInfo'[s], sess[s])]
    /\ lastOp' = SyncOp("enableFailed", s)
    /\ UNCHANGED <<singleApp, sess, store, inbox>>

NextToggle2 ==
    \E s \in Sessions :
        \/ edit2(s)
        \/ saveTimer2(s)
        \/ receive2(s)
        \/ saveTimerFails2(s)
        \/ disable2(s)
        \/ enable2(s)
        \/ enableFails2(s)

SpecToggle2 == InitSync2 /\ [][NextToggle2]_vars

(* part_002: the connect effect step by step *)

\* the connection status with the place the connect effect's async function
\* has reached: "idle", "loading" (awaiting the client library) or "reading"
\* (awaiting the select of the row)
Connecting(info, stage) ==
    [connected |-> info.connected, error |-> info.error,
     client |-> info.client, stage |-> stage]

\* both sessions have sharing switched off and nothing in flight
InitConnect2 ==
    /\ singleAppAtRest
    /\ edits = 0
    /\ lastOp = SyncOp("other", 0)
    /\ sess = [s \in Sessions |-> local2]
    /\ store = Blob(EmptyData, 0)
    /\ inbox = [s \in Sessions |-> <<>>]
    /\ timer = [s \in Sessions |-> NoTimer]
    /\ sharedOn = [s \in Sessions |-> FALSE]
    /\ sharedInfo = [s \in Sessions |->
                        Connecting(Status(FALSE, FALSE, FALSE), "idle")]

\* sharing is switched on: the effect runs up to await getSbCreateClient()
connectStarts2(s) ==
    /\ ~sharedOn[s]
    /\ sharedInfo[s].stage = "idle"
    /\ edits < MaxSyncOps
    /\ edits' = edits + 1
    /\ sharedOn' = [sharedOn EXCEPT ![s] = TRUE]
    /\ sharedInfo' = [sharedInfo EXCEPT ![s].stage = "loading"]
    /\ lastOp' = SyncOp("connectStarts", s)
    /\ UNCHANGED <<singleApp, sess, store, inbox, timer>>

\* the client library has loaded: setSupabase(sb), which runs the save
\* effect, then await of the select.  Nothing tests alive or sharedOn.
clientLoaded2(s) ==
    /\ sharedInfo[s].stage = "loading"
    /\ sharedInfo' = [sharedInfo EXCEPT ![s].client = TRUE,
                                        ![s].stage = "reading"]
    /\ timer' = [timer EXCEPT
           ![s] = saveEffect2(@, sharedOn[s], sharedInfo'[s], sess[s])]
    /\ lastOp' = SyncOp("clientLoaded", s)
    /\ UNCHANGED <<singleApp, edits, sess, store, inbox, sharedOn>>

\* the select has answered: the row is applied, the status set to connected
\* and the channel subscribed.  Nothing tests alive or sharedOn.
connectDone2(s) ==
    /\ sharedInfo[s].stage = "reading"
    /\ sess' = [sess EXCEPT ![s] = applyRemote2(@, store.data)]
    /\ sharedInfo' = [sharedInfo EXCEPT ![s].connected = TRUE,
                                        ![s].error = FALSE,
                                        ![s].stage = "idle"]
    /\ timer' = [timer EXCEPT
           ![s] = IF store.data.present
                  THEN saveEffect2(@, sharedOn[s], sharedInfo'[s], sess'[s])
                  ELSE @]
    /\ lastOp' = SyncOp("subscribed", s)
    /\ UNCHANGED <<singleApp, edits, store, inbox, sharedOn>>

NextConnect2 ==
    \E s \in Sessions :
        \/ connectStarts2(s)
        \/ clientLoaded2(s)
        \/ connectDone2(s)
        \/ disable2(s)
        \/ edit2(s)
        \/ saveTimer2(s)
        \/ receive2(s)

SpecConnect2 == InitConnect2 /\ [][NextConnect2]_vars

(* part_000 *)

localA ==
    [present |-> TRUE, trucks |-> <<1, 2>>, clients |-> <<>>, jobs |-> <<>>,
     scheduled |-> <<>>, settings |-> DEFAULT_SETTINGS]

\* the save effect: the guard first, then clearTimeout(saveDebounce.current)
\* and setTimeout
saveEffectA(t, on, info, data) ==
    IF on /\ info.client /\ info.connected THEN arm(clearCur(t), data) ELSE t

\* both sessions have connected (the connect effect upserted data {}), and the
\* save effect ran when sharedInfo.connected was set
InitSyncA ==
    /\ singleAppAtRest
    /\ edits = 0
    /\ lastOp = SyncOp("other", 0)
    /\ sess = [s \in Sessions |-> localA]
    /\ store = Blob(EmptyData, 0)
    /\ inbox = [s \in Sessions |-> <<>>]
    /\ timer = [s \in Sessions |-> arm(NoTimer, localA)]
    /\ sharedOn = [s \in Sessions |-> TRUE]
    /\ sharedInfo = [s \in Sessions |-> Status(TRUE, FALSE, TRUE)]

editA(s) ==
    /\ edits < MaxSyncOps
    /\ edits' = edits + 1
    /\ \/ \E d \in Range(DAYS) :
              /\ d # sess[s].settings.activeDay
              /\ sess' = [sess EXCEPT ![s].settings.activeDay = d]
       \/ \E g \in SyncGapValues :
              /\ g # sess[s].settings.gap
              /\ sess' = [sess EXCEPT ![s].settings.gap = g]
    /\ timer' = [timer EXCEPT
           ![s] = saveEffectA(@, sharedOn[s], sharedInfo[s], sess'[s])]
    /\ lastOp' = SyncOp("edit", s)
    /\ UNCHANGED <<singleApp, store, inbox, sharedOn, sharedInfo>>

\* the timeout fires: update({ data }) of the row, without a writer field
saveTimerA(s) ==
    /\ timer[s].pending # <<>>
    /\ \A t \in Sessions : Len(inbox[t]) < MaxInbox
    /\ timer' = [timer EXCEPT ![s] = fired(@)]
    /\ store' = Blob(Head(timer[s].pending), s)
    /\ inbox' = notifyAll(Blob(Head(timer[s].pending), s))
    /\ sharedInfo' = [sharedInfo EXCEPT ![s].error = FALSE]
    /\ lastOp' = SyncOp("save", s)
    /\ UNCHANGED <<singleApp, edits, sess, sharedOn>>

\* the overwrite of the postgres_changes handler, the settings merged, and the
\* orphan guard that runs because jobs changed
applyRemoteA(loc, d) ==
    IF ~d.present THEN loc
    ELSE [present |-> TRUE, trucks |-> d.trucks, clients |-> d.clients,
          jobs |-> d.jobs, scheduled |-> orphanGuard(d.scheduled, d.jobs),
          settings |-> d.settings]

\* the postgres_changes handler: it never looks at who wrote
receiveA(s) ==
    /\ inbox[s] # <<>>
    /\ inbox' = [inbox EXCEPT ![s] = Tail(@)]
    /\ IF ~sharedOn[s] \/ ~Head(inbox[s]).data.present
       THEN UNCHANGED <<sess, timer>>
       ELSE /\ sess' = [sess EXCEPT ![s] = applyRemoteA(@, Head(inbox[s]).data)]
            /\ timer' = [timer EXCEPT
                   ![s] = saveEffectA(@, sharedOn[s], sharedInfo[s], sess'[s])]
    /\ lastOp' = SyncOp(IF ~sharedOn[s] THEN "ignored" ELSE "receive", s)
    /\ UNCHANGED <<singleApp, edits, store, sharedOn, sharedInfo>>

NextSyncA ==
    \E s \in Sessions :
        \/ editA(s)
        \/ saveTimerA(s)
        \/ receiveA(s)

SpecSyncA == InitSyncA /\ [][NextSyncA]_vars

(* part_000: the sharing switch and failing calls *)

\* the update fails: a rejected promise, or an { error } result that the
\* callback throws; the catch records it
saveTimerFailsA(s) ==
    /\ timer[s].pending # <<>>
    /\ timer' = [timer EXCEPT ![s] = fired(@)]
    /\ sharedInfo' = [sharedInfo EXCEPT ![s].error = TRUE]
    /\ lastOp' = SyncOp("saveFailed", s)
    /\ UNCHANGED <<singleApp, edits, sess, store, inbox, sharedOn>>

\* sharing is switched off: the connect effect drops the client and resets
\* the status; the save effect returns at its guard
disableA(s) ==
    /\ sharedOn[s]
    /\ edits < MaxSyncOps
    /\ edits' = edits + 1
    /\ sharedOn' = [sharedOn EXCEPT ![s] = FALSE]
    /\ sharedInfo' = [sharedInfo EXCEPT ![s] = Status(FALSE, FALSE, FALSE)]
    /\ timer' = [timer EXCEPT
           ![s] = saveEffectA(@, FALSE, sharedInfo'[s], sess[s])]
    /\ lastOp' = SyncOp("disable", s)
    /\ UNCHANGED <<singleApp, sess, store, inbox>>

\* sharing is switched on and the connect effect succeeds: it upserts data {}
\* into the row, reads the row back, sets the status, and the save effect runs
enableA(s) ==
    /\ ~sharedOn[s]
    /\ edits < MaxSyncOps
    /\ edits' = edits + 1
    /\ \A t \in Sessions : Len(inbox[t]) < MaxInbox
    /\ sharedOn' = [sharedOn EXCEPT ![s] = TRUE]
    /\ sharedInfo' = [sharedInfo EXCEPT ![s] = Status(TRUE, FALSE, TRUE)]
    /\ store' = Blob(EmptyData, s)
    /\ inbox' = notifyAll(Blob(EmptyData, s))
    /\ sess' = [sess EXCEPT ![s] = applyRemoteA(@, EmptyData)]
    /\ timer' = [timer EXCEPT
           ![s] = saveEffectA(@, TRUE, sharedInfo'[s], sess'[s])]
    /\ lastOp' = SyncOp("enable", s)
    /\ UNCHANGED singleApp

\* sharing is switched on and the connect step fails.  If the configuration
\* is missing or loading the client throws, the catch records the error.  If
\* the upsert and the select return an { error }, it is only logged with
\* console.warn and the status stays connected without an error.
enableFailsA(s) ==
    /\ ~sharedOn[s]
    /\ edits < MaxSyncOps
    /\ edits' = edits + 1
    /\ sharedOn' = [sharedOn EXCEPT ![s] = TRUE]
    /\ \E thrown \in BOOLEAN :
           /\ sharedInfo' = [sharedInfo EXCEPT ![s] =
                  IF thrown THEN Status(FALSE, TRUE, FALSE)
                  ELSE Status(TRUE, FALSE, TRUE)]
           /\ timer' = [timer EXCEPT
                  ![s] = saveEffectA(@, TRUE, sharedInfo'[s], sess[s])]
    /\ lastOp' = SyncOp("enableFailed", s)
    /\ UNCHANGED <<singleApp, sess, store, inbox>>

NextToggleA ==
    \E s \in Sessions :
        \/ editA(s)
        \/ saveTimerA(s)
        \/ receiveA(s)
        \/ saveTimerFailsA(s)
        \/ disableA(s)
        \/ enableA(s)
        \/ enableFailsA(s)

SpecToggleA == InitSyncA /\ [][NextToggleA]_vars

----------------------------------------------------------------------------
(* Properties of the part_000 application *)

\* two half-open intervals [s1, e1) and [s2, e2) share a minute
Overlaps(s1, e1, s2, e2) == Max2(s1, s2) < Min2(e1, e2)

rowOfOp == lastOp.written[1]
jobOfRow(r) == jobById(jobs, r.jobId)
manualPlaced == lastOp.op \in {"save", "quick"} /\ lastOp.written # <<>>

\* C1: no two placements of the same day and truck overlap as half-open
\* intervals, in every reachable schedule state (manual placements, auto
\* runs, job edits, removals).
NoOverlap ==
    \A i \in DOMAIN scheduled : \A k \in DOMAIN scheduled :
        (i < k /\ scheduled[i].day = scheduled[k].day
               /\ scheduled[i].truckId = scheduled[k].truckId)
        => ~Overlaps(scheduled[i].startMin, scheduled[i].endMin,
                     scheduled[k].startMin, scheduled[k].endMin)

\* C2: an auto-schedule run places a job that has a pinned truck on exactly
\* that truck, or not at all.
AutoRespectsPin ==
    lastOp.op = "auto" =>
        \A k \in DOMAIN lastOp.written :
            LET r == lastOp.written[k]
            IN  jobOfRow(r).truckId # NoTruck => r.truckId = jobOfRow(r).truckId

\* durations a probe is asked for: those of the listed jobs and fixed ones
ProbeDurations == {jobDuration(jobs[i]) : i \in DOMAIN jobs} \cup {15, 45, 120}

\* C4: a start returned by the first-fit probe never makes
\* [start, start + duration) overlap a placement of that truck on the active
\* day, and a row a manual placement wrote overlaps no other row of its truck
\* and day.
ProbeNeverOverlaps ==
    /\ \A t \in Range(trucks) : \A d \in ProbeDurations :
          LET st == earliestSlotOnTruck(t, d)
          IN  st # NoSlot =>
                \A i \in DOMAIN scheduled :
                    (scheduled[i].day = settings.activeDay
                        /\ scheduled[i].truckId = t)
                    => ~Overlaps(st, st + d, scheduled[i].startMin,
                                 scheduled[i].endMin)
    /\ manualPlaced =>
          \A i \in DOMAIN scheduled :
              (scheduled[i].jobId # rowOfOp.jobId
                  /\ scheduled[i].day = rowOfOp.day
                  /\ scheduled[i].truckId = rowOfOp.truckId)
              => ~Overlaps(rowOfOp.startMin, rowOfOp.endMin,
                           scheduled[i].startMin, scheduled[i].endMin)

\* C4 witness: a manual placement went behind a row that occupies the start
\* of the window on its truck.
ProbeSkippedOccupied ==
    /\ manualPlaced
    /\ \E i \in DOMAIN scheduled :
          /\ scheduled[i].jobId # rowOfOp.jobId
          /\ scheduled[i].day = rowOfOp.day
          /\ scheduled[i].truckId = rowOfOp.truckId
          /\ scheduled[i].startMin = startMin
          /\ rowOfOp.startMin >= scheduled[i].endMin

\* C5: a manual placement never starts a job that has an earliest time before
\* max(window start, job.earliest).
ManualRespectsEarliest ==
    manualPlaced =>
        (jobOfRow(rowOfOp).earliest # NoClock
            => rowOfOp.startMin
                 >= Max2(startMin, toMin(jobOfRow(rowOfOp).earliest)))

\* C8: after an auto-schedule run the schedule state holds exactly one record
\* for the active day for every job the run was given.
AutoRecordsEveryJob ==
    lastOp.op = "auto" =>
        \A i \in DOMAIN jobs :
            Cardinality({k \in DOMAIN scheduled :
                scheduled[k].jobId = jobs[i].id
                    /\ scheduled[k].day = settings.activeDay}) = 1

\* C12: a successful manual placement of job J on day D leaves exactly one
\* row for (J, D) and leaves every row of another job, and every row of J on
\* another day, as it was.
ManualUpsertFrame ==
    [][(/\ places' = places + 1
        /\ lastOp'.op \in {"save", "quick"}
        /\ lastOp'.written # <<>>) =>
          LET r == lastOp'.written[1]
              others(s) ==
                  SelectSeq(s, LAMBDA x : ~(x.jobId = r.jobId /\ x.day = r.day))
          IN  /\ Cardinality({k \in DOMAIN scheduled' :
                     /\ scheduled'[k].jobId = r.jobId
                     /\ scheduled'[k].day = r.day}) = 1
              /\ others(scheduled') = others(scheduled)]_vars

\* C12 witness: a manual placement was written while the schedule holds a row
\* of another job on that day and a row of the same job on another day.
ManualPlacedAmongOthers ==
    /\ manualPlaced
    /\ \E k \in DOMAIN scheduled :
           scheduled[k].jobId # rowOfOp.jobId /\ scheduled[k].day = rowOfOp.day
    /\ \E k \in DOMAIN scheduled :
           scheduled[k].jobId = rowOfOp.jobId /\ scheduled[k].day # rowOfOp.day

\* C14: after an auto-schedule run for day D the rows of D in the schedule
\* are exactly the records that run produced.
AutoReplacesDay ==
    lastOp.op = "auto" =>
        SelectSeq(scheduled, LAMBDA x : x.day = settings.activeDay)
            = lastOp.written

\* C20: no row is on a truck that was removed from the fleet and no job is
\* pinned to one.
RemovedTruckUnused ==
    /\ \A k \in DOMAIN scheduled : scheduled[k].truckId \in Range(trucks)
    /\ \A i \in DOMAIN jobs :
           jobs[i].truckId # NoTruck => jobs[i].truckId \in Range(trucks)

\* C13: when no candidate truck yields a feasible slot, a manual placement
\* tells the caller so and leaves the schedule as it was.
NoCapacityReported ==
    (lastOp.op \in {"save", "quick"} /\ lastOp.written = <<>>) => alerted

\* C22: every row that an auto-schedule run or a manual placement wrote is in
\* the schedule and spans exactly the total duration its job has at that
\* moment.
PlacedSpansDuration ==
    lastOp.op \in {"save", "quick", "auto"} =>
        \A k \in DOMAIN lastOp.written :
            LET r == lastOp.written[k]
            IN  /\ \E n \in DOMAIN scheduled : scheduled[n] = r
                /\ r.endMin - r.startMin = jobDuration(jobOfRow(r))

\* C22 witness: an auto-schedule run wrote the rows of two jobs of different
\* durations.
AutoWroteTwoDurations ==
    /\ lastOp.op = "auto"
    /\ \E i, k \in DOMAIN lastOp.written :
           jobDuration(jobOfRow(lastOp.written[i]))
               # jobDuration(jobOfRow(lastOp.written[k]))

\* C26: in the rows of one auto-schedule run, a job placed later on a truck
\* starts at or after the end of each job placed earlier on that truck plus
\* the buffer.
AutoKeepsBuffer ==
    lastOp.op = "auto" =>
        \A i, k \in DOMAIN lastOp.written :
            (i < k /\ lastOp.written[i].truckId = lastOp.written[k].truckId) =>
                lastOp.written[k].startMin
                    >= lastOp.written[i].endMin + settings.bufferBetweenJobs

truckIndex(t) == CHOOSE i \in DOMAIN trucks : trucks[i] = t

\* C30: saving a job that has no pinned truck places it on the truck whose
\* first-fit start is the smallest of the fleet, and among trucks with that
\* start on the first in fleet order.
SaveTakesEarliestTruck ==
    [][(/\ places' = places + 1
        /\ lastOp'.op = "save"
        /\ lastOp'.written # <<>>
        /\ jobById(jobs, lastOp'.jobId).truckId = NoTruck) =>
          LET r == lastOp'.written[1]
              d == jobDuration(jobById(jobs, lastOp'.jobId))
              slot(t) == earliestSlotOnTruck(t, d)
          IN  /\ r.truckId \in Range(trucks)
              /\ r.startMin = slot(r.truckId)
              /\ \A t \in Range(trucks) :
                     slot(t) # NoSlot =>
                         \/ slot(t) > r.startMin
                         \/ /\ slot(t) = r.startMin
                            /\ truckIndex(r.truckId) <= truckIndex(t)]_vars

\* C30 witness: a save put an unpinned job on the second truck of the fleet
\* while the first truck holds a row of another job on that day.
SaveChoseSecondTruck ==
    /\ lastOp.op = "save"
    /\ lastOp.written # <<>>
    /\ Len(trucks) = 2
    /\ jobOfRow(rowOfOp).truckId = NoTruck
    /\ rowOfOp.truckId = trucks[2]
    /\ \E k \in DOMAIN scheduled :
           /\ scheduled[k].truckId = trucks[1]
           /\ scheduled[k].day = rowOfOp.day
           /\ scheduled[k].jobId # rowOfOp.jobId

\* C31: no row computed from a job's old values remains: every row spans its
\* job's current duration, and the row of a pinned job is on the job's pinned
\* truck.
PlacementsFollowJobs ==
    \A k \in DOMAIN scheduled :
        hasJob(jobs, scheduled[k].jobId) =>
            LET j == jobById(jobs, scheduled[k].jobId)
            IN  /\ scheduled[k].endMin - scheduled[k].startMin = jobDuration(j)
                /\ j.truckId # NoTruck => scheduled[k].truckId = j.truckId

\* the rows of truck t on the active day
rowsOfTruck(s, t) ==
    {s[k] : k \in {n \in DOMAIN s :
                      s[n].truckId = t /\ s[n].day = settings.activeDay}}

\* C35: the probe for truck T depends on the rows of T on the active day
\* only: a step that changes the schedule, and leaves the rows of T on the
\* active day and the settings as they were, leaves the probe's result for T
\* and every duration as it was.
ProbeIgnoresOtherTrucks ==
    [][\A t \in Range(trucks) \cap Range(trucks') :
          (/\ settings' = settings
           /\ scheduled' # scheduled
           /\ rowsOfTruck(scheduled', t) = rowsOfTruck(scheduled, t)) =>
              \A d \in ProbeDurations :
                  earliestSlotOnTruck(t, d)' = earliestSlotOnTruck(t, d)]_vars

\* C35 witness: QuickPlace wrote a row on one truck while another truck
\* holds a row of that day.
QuickPlacedBesideOtherTruck ==
    /\ lastOp.op = "quick"
    /\ lastOp.written # <<>>
    /\ \E k \in DOMAIN scheduled :
           /\ scheduled[k].truckId # rowOfOp.truckId
           /\ scheduled[k].day = rowOfOp.day

\* C38: every row that an auto-schedule run or a manual placement wrote lies
\* inside the day window in force: it starts at or after the window start
\* and ends at or before the window end.
WrittenInsideWindow ==
    lastOp.op \in {"save", "quick", "auto"} =>
        \A k \in DOMAIN lastOp.written :
            /\ lastOp.written[k].startMin >= startMin
            /\ lastOp.written[k].endMin <= endMin

\* C39: saving a job again right after it was saved to the schedule leaves
\* its row on the same truck with the same start and end.
SaveAgainKeepsRow ==
    [][(/\ lastOp.op = "save"
        /\ lastOp.written # <<>>
        /\ places' = places + 1
        /\ lastOp'.op = "save"
        /\ lastOp'.jobId = lastOp.jobId) =>
          lastOp'.written = lastOp.written]_vars

----------------------------------------------------------------------------
(* Properties of the part_002 application *)

\* C3: after the Auto button ran, running auto-schedule again with the same
\* jobs, trucks, active day, window and buffer computes the same rows in the
\* same order, and leaves the schedule state as the first run left it.
AutoIdempotent ==
    lastOp.op = "auto" =>
        /\ computedFor(jobs, trucks, settings) = lastOp.written
        /\ autoSchedule2(scheduled, jobs, trucks, settings) = scheduled

\* C3 witness: Auto ran on a day with a placed and an unplaced job.
AutoRanTwiceCase ==
    /\ lastOp.op = "auto"
    /\ \E k \in DOMAIN lastOp.written : lastOp.written[k].truckId # NoTruck
    /\ \E k \in DOMAIN lastOp.written : lastOp.written[k].truckId = NoTruck

jobsOfDay(js, d) == SelectSeq(js, LAMBDA j : j.day = d)

ranAuto == lastOp.op \in {"auto", "effect"}

\* the availability cursor of truck t when row k of the run was computed
cursorBefore(rows, k, t) ==
    LET prev == {i \in 1 .. (k - 1) : rows[i].truckId = t}
    IN  IF prev = {} THEN toMin2(settings.startTime)
        ELSE rows[CHOOSE i \in prev : \A n \in prev : n <= i].endMin
                 + settings.gap

effectiveEarliest(j) ==
    Max2(toMin2(settings.startTime),
         IF j.earliest = NoClock THEN toMin2(settings.startTime)
         ELSE toMin2(j.earliest))

fleetIndex(t) == CHOOSE i \in DOMAIN trucks : trucks[i] = t

\* the self-test's job: load 10, travel 20, on site 30, return 20
selfTestJob ==
    [id |-> 1, type |-> "Delivery", day |-> "Mon", earliest |-> <<7, 0>>,
     loadMins |-> 10, travelMins |-> 20, onsiteMins |-> 30, returnMins |-> 20,
     offloadMins |-> 0, priority |-> 1, assignedTruckId |-> NoTruck]

\* C25: an unpinned job goes to the first truck, in ascending order of the
\* availability cursors with ties in fleet order, on which it fits at
\* max(cursor, effective earliest), and starts there; it is unscheduled when
\* it fits on no truck.  One 80-minute job with trucks T1 and T2 and the
\* window 420..1080 goes to T1 at 420..500.
LeastLoadedTruckFirst ==
    /\ ranAuto =>
          \A k \in DOMAIN lastOp.written :
              LET rows == lastOp.written
                  j == jobById(jobs, rows[k].jobId)
                  cur(t) == cursorBefore(rows, k, t)
                  at(t) == Max2(cur(t), effectiveEarliest(j))
                  fitsOn(t) == at(t) + dur2(j) <= toMin2(settings.endTime)
                  before(t, u) ==
                      \/ cur(t) < cur(u)
                      \/ cur(t) = cur(u) /\ fleetIndex(t) < fleetIndex(u)
              IN  j.assignedTruckId = NoTruck =>
                    IF \E t \in Range(trucks) : fitsOn(t)
                    THEN /\ rows[k].truckId \in Range(trucks)
                         /\ fitsOn(rows[k].truckId)
                         /\ \A u \in Range(trucks) \ {rows[k].truckId} :
                                fitsOn(u) => before(rows[k].truckId, u)
                         /\ rows[k].startMin = at(rows[k].truckId)
                    ELSE rows[k].truckId = NoTruck
    /\ computeAutoSchedule(<<selfTestJob>>, <<1, 2>>, "Mon", 420, 1080, 0)
           = <<[jobId |-> 1, truckId |-> 1, startMin |-> 420, endMin |-> 500,
                day |-> "Mon"]>>

\* C25 witness: a run put an unpinned job on the second truck of the fleet
\* after it had put a job on the first.
SecondTruckWasLessLoaded ==
    /\ ranAuto
    /\ Len(trucks) = 2
    /\ \E i, k \in DOMAIN lastOp.written :
           /\ i < k
           /\ lastOp.written[i].truckId = trucks[1]
           /\ lastOp.written[k].truckId = trucks[2]
           /\ jobById(jobs, lastOp.written[k].jobId).assignedTruckId = NoTruck

\* C34: the rows of the active day are the auto-schedule result for the
\* current jobs, trucks, window, buffer and active day, after every change
\* of these and after every other operation, Clear included.
dayIsAutoResult(sched, js, ts, st) ==
    SelectSeq(sched, LAMBDA x : x.day = st.activeDay) = computedFor(js, ts, st)

DayRowsAreAutoResult == dayIsAutoResult(scheduled, jobs, trucks, settings)

\* C34, amended: the rows of the active day are the auto-schedule result for
\* the current jobs, trucks, window, buffer and active day after every change
\* of these and after every other operation, until Clear empties the
\* schedule; they are the auto-schedule result again after the next change.
DayRowsAreAutoResultUntilClear ==
    [][(lastOp'.op \in {"effect", "auto"}
           \/ (DayRowsAreAutoResult /\ lastOp'.op # "clear")) =>
              dayIsAutoResult(scheduled', jobs', trucks', settings')]_vars

\* C34 witness: the effect recomputed a day that holds rows after a change
\* of the job list.
EffectRecomputedDay ==
    /\ lastOp.op = "effect"
    /\ lastOp.written # <<>>
    /\ DayRowsAreAutoResult

\* C11: every row's job reference resolves to a job of the current job list.
PlacementsResolve ==
    \A k \in DOMAIN scheduled : hasJob(jobs, scheduled[k].jobId)

----------------------------------------------------------------------------
(* Properties of the duration and ordering functions *)

nonNeg(x) == IF x < 0 THEN 0 ELSE x
claimedDuration(a) ==
    nonNeg(a.load) + nonNeg(a.travel) + nonNeg(a.onsite) + Max2(a.ret, 0)

\* C7: for a job of either kind the duration is load + travel + onsite +
\* max(returnTravel, 0) with negative fields counted as 0, whichever kind the
\* job is.
DurationAsSpecified ==
    result.fn \in {"jobDuration", "dur2"} => result.value = claimedDuration(arg)

\* the labels of a kind's segments, in the order the timeline shows them
KindOrder(type) ==
    IF type = "Delivery" THEN <<"Load", "Travel", "Offload", "Return">>
    ELSE <<"Off-site load", "Travel", "On-site", "Return">>

positionIn(order, label) == CHOOSE k \in DOMAIN order : order[k] = label

RECURSIVE sumMinutes(_)
sumMinutes(sg) ==
    IF sg = <<>> THEN 0 ELSE sg[1].minutes + sumMinutes(Tail(sg))

\* C36: the segment list of a job holds only segments of positive length,
\* their labels are labels of the job's kind in the kind's order (Delivery:
\* Load, Travel, Offload, Return; Collection: Off-site load, Travel, On-site,
\* Return), and their minutes add up to the duration of the job.
SegmentsAsSpecified ==
    result.fn \in {"segmentsFor", "segs"} =>
        LET sg == result.value
            order == KindOrder(arg.type)
        IN  /\ \A k \in DOMAIN sg : sg[k].minutes > 0
            /\ \A k \in DOMAIN sg : \E n \in DOMAIN order : order[n] = sg[k].label
            /\ \A k \in DOMAIN sg : \A n \in DOMAIN sg :
                   k < n => positionIn(order, sg[k].label)
                              < positionIn(order, sg[n].label)
            /\ sumMinutes(sg) = (IF result.fn = "segmentsFor"
                                 THEN jobDuration(asJob(arg))
                                 ELSE dur2(asJob2(arg)))

\* the rank the forms give a job whose priority was left empty
NeutralRank == 3
claimedPriority(j) == IF j.priority = NaN THEN NeutralRank ELSE j.priority
claimedEarliest(j) ==
    IF j.earliest = NoClock THEN arg.startMin ELSE toMin2(j.earliest)
claimedBefore(a, b) ==
    \/ claimedPriority(a) < claimedPriority(b)
    \/ /\ claimedPriority(a) = claimedPriority(b)
       /\ claimedEarliest(a) < claimedEarliest(b)
    \/ /\ claimedPriority(a) = claimedPriority(b)
       /\ claimedEarliest(a) = claimedEarliest(b)
       /\ dur2(a) > dur2(b)

\* C9: the day's jobs are processed by priority ascending (absent = the
\* neutral rank), then earliest ascending (absent = window start), then
\* duration descending, and jobs equal on all three keys keep their input
\* order.
SortedAsSpecified ==
    result.fn = "dayJobs" =>
        \A i, k \in DOMAIN result.value :
            i < k =>
                /\ ~claimedBefore(result.value[k], result.value[i])
                /\ claimedBefore(result.value[i], result.value[k])
                   \/ result.value[i].id < result.value[k].id

----------------------------------------------------------------------------
(* Properties of the first-fit probe *)

probing == result.fn \in {"earliestSlotOnTruck", "onPlace"}
probeDone == probing /\ result.pc = "done"

\* [st, st + d) ends by the window end and meets no row of truck t on the
\* active day
claimedFree(t, st, d) ==
    /\ st + d <= endMin
    /\ \A k \in DOMAIN scheduled :
           (scheduled[k].day = settings.activeDay /\ scheduled[k].truckId = t)
           => ~(st + d > scheduled[k].startMin /\ st < scheduled[k].endMin)

\* starts a candidate may have: around the window and around every row
CandidateStarts ==
    {startMin, endMin - arg.dur, endMin - arg.dur + 1}
    \cup {scheduled[k].startMin - arg.dur : k \in DOMAIN scheduled}
    \cup {scheduled[k].startMin - arg.dur + 1 : k \in DOMAIN scheduled}
    \cup {scheduled[k].endMin : k \in DOMAIN scheduled}
    \cup {scheduled[k].endMin - 1 : k \in DOMAIN scheduled}

\* C27: the overlap detector reports [start, start + duration) free exactly
\* when it ends by the window end and for no row of that truck and day both
\* end > row.start and start < row.end hold; a candidate that ends where a
\* row starts, or at the window end, is free.
DetectorHalfOpen ==
    /\ (probing /\ result.tried # NoSlot /\ result.tried # NaN) =>
           (result.free <=> claimedFree(arg.truckId, result.tried, arg.dur))
    /\ \A t \in Range(trucks) : \A st \in CandidateStarts :
           fitsAt(existingOn(t), arg.dur, endMin, st)
               <=> claimedFree(t, st, arg.dur)

\* C27 witness: the probe found free a candidate that ends exactly where a
\* row of its truck starts.
FreeUpToNextRow ==
    /\ probeDone
    /\ result.free
    /\ \E k \in DOMAIN scheduled :
           /\ scheduled[k].day = settings.activeDay
           /\ scheduled[k].truckId = arg.truckId
           /\ scheduled[k].startMin = result.tried + arg.dur

\* the multiples of the gap from the window start on where the job is free
claimedSlots ==
    {m \in {k * settings.gap : k \in 0 .. (endMin \div settings.gap)} :
        m >= startMin /\ claimedFree(arg.truckId, m, arg.dur)}

\* C28: for a positive gap the probe returns the smallest multiple of the gap
\* at or after the window start at which the job is free and ends by the
\* window end, and none exactly when there is no such multiple.
ProbeFirstMultiple ==
    (probeDone /\ settings.gap > 0) =>
        /\ IF claimedSlots = {} THEN result.value = NoSlot
           ELSE /\ result.value \in claimedSlots
                /\ \A m \in claimedSlots : result.value <= m
        /\ earliestSlotOnTruck(arg.truckId, arg.dur) = result.value

\* C28 witness: the window starts off the grid and the probe went past an
\* occupied multiple to a later one.
ProbeWentPastRow ==
    /\ probeDone
    /\ settings.gap > 0
    /\ startMin % settings.gap # 0
    /\ result.value # NoSlot
    /\ result.value > startMin + settings.gap

\* C29: the probe loop comes to its end, whatever the duration, the rows and
\* the gap (0 and negative gaps included).
ProbeTerminates == <>probeDone

\* C29 witness: the loop ended with gap 0.
ProbeEndedWithGapZero ==
    /\ probeDone
    /\ settings.gap = 0
    /\ result.value = NoSlot

----------------------------------------------------------------------------
(* Properties of the clock helpers *)

\* C23: parsing and formatting are inverse on the day range: formatting a
\* minute of 0..1439 and parsing the text gives the minute back, and parsing
\* a zero-padded HH:MM string of the day and formatting the minute gives
\* the string back.
ClockRoundTrip ==
    /\ result.fn \in {"toMin(toHHMM)", "toMin(hhmm)"} =>
           result.value = arg.minute
    /\ result.fn \in {"toHHMM(toMin)", "hhmm(toMin)"} =>
           result.value = arg.text

\* C23 witness: "07:05", whose hour and minute both need the padding zero,
\* came back from hhmm(toMin(s)).
PaddedClockCameBack ==
    /\ result.fn = "hhmm(toMin)"
    /\ arg.text = <<"0", "7", ":", "0", "5">>
    /\ result.value = arg.text

----------------------------------------------------------------------------
(* Properties of computeAutoSchedule *)

computed == result.fn = "computeAutoSchedule"

\* ten 2-hour jobs, one truck, buffer 0, a window of w minutes
tenJobsCase(w) ==
    /\ computed
    /\ Len(arg.jobs) = 10
    /\ \A i \in DOMAIN arg.jobs : dur2(arg.jobs[i]) = 120
    /\ Len(arg.trucks) = 1
    /\ arg.endMin - arg.startMin = w
    /\ arg.buffer = 0

placedRows == {k \in DOMAIN result.value : result.value[k].truckId # NoTruck}

\* the first n rows are back to back from the window start, the others null
filledUpTo(n) ==
    /\ \A k \in 1 .. n :
           /\ result.value[k].truckId = arg.trucks[1]
           /\ result.value[k].startMin = arg.startMin + 120 * (k - 1)
           /\ result.value[k].endMin = arg.startMin + 120 * k
    /\ \A k \in (n + 1) .. 10 :
           /\ result.value[k].truckId = NoTruck
           /\ result.value[k].startMin = Null

\* C21, as stated: with ten 2-hour jobs, one truck, a window of exactly 10
\* hours and buffer 0, the run places exactly 9 jobs and reports the 10th as
\* unscheduled.
TenJobsNinePlaced ==
    tenJobsCase(600) =>
        /\ Cardinality(placedRows) = 9
        /\ result.value[10].truckId = NoTruck

\* C21, amended: with ten 2-hour jobs, one truck and buffer 0, a window of
\* exactly 18 hours takes exactly 9 jobs, at 0, 2, ..., 16 hours after the
\* window start, the last one ending exactly at the window end, and the 10th
\* is reported unscheduled; a window of exactly 10 hours takes exactly 5.
TenJobsFillWindow ==
    /\ tenJobsCase(1080) => filledUpTo(9)
    /\ tenJobsCase(600) => filledUpTo(5)

\* C21 witness: the ninth of ten jobs ends exactly at the end of an 18-hour
\* window.
NinthEndsAtWindowEnd ==
    /\ tenJobsCase(1080)
    /\ result.value[9].endMin = arg.endMin

\* the jobs with every absent earliest time set to the window start
earliestFilled(js, sMin) ==
    [i \in DOMAIN js |->
        IF js[i].earliest = NoClock
        THEN [js[i] EXCEPT !.earliest = clockOf(sMin)] ELSE js[i]]

\* C24: a job whose earliest time is absent is auto-scheduled as the same job
\* with earliest = window start would be, and is not left unscheduled because
\* of the missing value.
AbsentEarliestIsWindowStart ==
    computed =>
        result.value
            = computeAutoSchedule(earliestFilled(arg.jobs, arg.startMin),
                  arg.trucks, "Mon", arg.startMin, arg.endMin, arg.buffer)

----------------------------------------------------------------------------
(* Properties of shared mode *)

\* C6: when a session handles a change notification that its own write
\* produced, none of its trucks, clients, jobs, settings or placements change.
OwnWriteNeverBounces ==
    [][\A s \in Sessions :
          (/\ inbox[s] # <<>>
           /\ inbox'[s] = Tail(inbox[s])
           /\ Head(inbox[s]).writer = s) => sess'[s] = sess[s]]_vars

\* C10: once local edits have stopped, every session eventually holds the
\* stored document's trucks, clients, jobs and settings and keeps holding them.
ViewsConverge == <>[](\A s \in Sessions : sess[s] = store.data)

\* C16: once a session has switched sharing off, it issues no write to the
\* shared store.
NoWriteAfterDisable ==
    lastOp.op = "save" => sharedOn[lastOp.jobId]

\* C17: a session has at most one pending write, and the write that fires
\* carries the session's latest trucks, clients, jobs and settings.
OnePendingLatestState ==
    /\ \A s \in Sessions : Len(timer[s].pending) <= 1
    /\ lastOp.op = "save" => store.data = sess[lastOp.jobId]

\* C18: a remote update written by another session overwrites every local
\* field that is present in the blob and leaves the others as they were.
FieldwiseOverwrite ==
    [][\A s \in Sessions :
          (/\ lastOp'.op = "receive" /\ lastOp'.jobId = s
           /\ inbox[s] # <<>>
           /\ inbox'[s] = Tail(inbox[s])
           /\ Head(inbox[s]).writer # s) =>
              IF Head(inbox[s]).data.present
              THEN sess'[s] = Head(inbox[s]).data
              ELSE sess'[s] = sess[s]]_vars

\* C32: a notification delivered to a session whose sharing is switched off
\* changes none of its trucks, clients, jobs, settings or placements and
\* does not write its last-sync status: the handler returns at its first
\* line.
OffSessionIgnoresNotifications ==
    [][\A s \in Sessions :
          (/\ ~sharedOn[s]
           /\ inbox[s] # <<>>
           /\ inbox'[s] = Tail(inbox[s])) =>
              /\ sess'[s] = sess[s]
              /\ sharedInfo'[s] = sharedInfo[s]
              /\ timer'[s] = timer[s]
              /\ lastOp' = SyncOp("ignored", s)]_vars

\* C32 witness: a session with sharing switched off was handed another
\* session's write of a state that is not its own.
OffSessionGotNotification ==
    /\ lastOp.op = "ignored"
    /\ ~sharedOn[lastOp.jobId]
    /\ store.writer \in Sessions \ {lastOp.jobId}
    /\ store.data.present
    /\ store.data # sess[lastOp.jobId]

\* C37: a session that handles a notification schedules no outbound write:
\* if it had no write pending before, it has none after.
ReceiveSchedulesNoWrite ==
    [][\A s \in Sessions :
          (/\ inbox[s] # <<>>
           /\ inbox'[s] = Tail(inbox[s])
           /\ timer[s].pending = <<>>) => timer'[s].pending = <<>>]_vars

\* C33: while a session's sharing is switched off its status is not
\* connected, it holds no store client, and no step of a connect effect
\* opens a subscription for it.
OffStaysDisconnected ==
    /\ \A s \in Sessions :
           ~sharedOn[s] => ~sharedInfo[s].connected /\ ~sharedInfo[s].client
    /\ lastOp.op = "subscribed" => sharedOn[lastOp.jobId]

\* C19: a failed connect step or a failed write leaves an error value in the
\* session's connection status.
FailureRecorded ==
    lastOp.op \in {"saveFailed", "enableFailed"} =>
        sharedInfo[lastOp.jobId].error

====
